---- MODULE Spec2Model ----
(***************************************************************************)
(* Complaint analysis system: ingestion of spreadsheet rows into the       *)
(* complaints table (complain_extractor.py, database.py, main.py), the     *)
(* analysis client's retry loop and response normalizer (ai_analyzer.py)   *)
(* and the processing orchestrator (complaint_processor.py / main.py).     *)
(*                                                                         *)
(* A Python str is a sequence of atoms (pieces of text).  Record ids are   *)
(* sequences of single characters so that formatting and parsing of the    *)
(* numeric suffix are computed, not assumed.                               *)
(***************************************************************************)
EXTENDS Integers, Sequences, FiniteSets, TLC

\* ------------------------------------------------------------------ bounds
MaxRows == 2
MaxRecords == 2

\* ------------------------------------------------------- program constants
max_retries == 3
max_tries == 3
system_max_retries == 3
MinReplyLen == 20
MaxPointLen == 100
IdWidth == 6

\* ------------------------------------------------------------ characters
Digits == <<"0", "1", "2", "3", "4", "5", "6", "7", "8", "9">>

IsDigit(c) == \E d \in 1..10 : Digits[d] = c

DigitVal(c) == (CHOOSE d \in 1..10 : Digits[d] = c) - 1

RECURSIVE DecStr(_)
\* str(n) for n >= 0
DecStr(n) == IF n < 10 THEN <<Digits[n + 1]>>
             ELSE DecStr(n \div 10) \o <<Digits[(n % 10) + 1]>>

RECURSIVE ZeroPad(_, _)
\* the "0<w>d" part of a format spec: pads on the left, never truncates
ZeroPad(s, w) == IF Len(s) >= w THEN s ELSE ZeroPad(<<"0">> \o s, w)

IdPrefix == <<"C", "O", "M", "P", "-">>

\* f"COMP-{n:06d}"
FormatComplaintId(n) == IdPrefix \o ZeroPad(DecStr(n), IdWidth)

RECURSIVE SplitAt(_, _, _)
\* s.split(sep) for a one-character separator; cur is the piece being read
SplitAt(s, sep, cur) ==
    IF s = <<>> THEN <<cur>>
    ELSE IF Head(s) = sep THEN <<cur>> \o SplitAt(Tail(s), sep, <<>>)
    ELSE SplitAt(Tail(s), sep, Append(cur, Head(s)))

Split(s, sep) == SplitAt(s, sep, <<>>)

RECURSIVE DigitsValue(_, _)
DigitsValue(s, acc) ==
    IF s = <<>> THEN acc ELSE DigitsValue(Tail(s), acc * 10 + DigitVal(Head(s)))

\* int(s) succeeds on a non-empty run of decimal digits; anything else the
\* ids of this model can hold raises ValueError
IntParses(s) == s # <<>> /\ \A i \in 1..Len(s) : IsDigit(s[i])
IntOf(s) == DigitsValue(s, 0)

SetMax(S) == CHOOSE m \in S : \A x \in S : x <= m

\* ------------------------------------------------------------ Python values
\* None, a str (one sequence of atoms) or a list of str
PyNone == [ty |-> "none", items |-> <<>>]
PyStr(s) == [ty |-> "str", items |-> <<s>>]
PyList(l) == [ty |-> "list", items |-> l]

StrOf(v) == v.items[1]

\* str(v).lower() as far as keyword search goes: the atoms of the text
TextOf(v) == IF v.ty = "str" THEN StrOf(v) ELSE <<"none">>

\* ---------------------------------------------------------------- keywords
\* The keywords of database.py's lists that occur in an atom (substring
\* search over the lower-cased text, atom by atom).
AtomKeywords(a) ==
    CASE a = "refund issued promptly" -> {"issued", "promptly"}
      [] a = "parcel replaced and refunded" -> {"replaced", "refunded"}
      [] a = "broken seal caused injury" -> {"broken", "injury"}
      [] a = "toxic smell, product recall" -> {"toxic", "recall"}
      [] a = "seal was broken" -> {"broken"}
      [] a = "packaging damaged" -> {"damaged"}
      [] a = "urgent safety review" -> {"urgent", "safety"}
      [] a = "contamination at plant" -> {"contamination"}
      [] a = "Product Recall" -> {"recall"}
      [] a = "Damaged Product" -> {"damaged"}
      [] a = "Safety Issue" -> {"safety"}
      [] OTHER -> {}

KeywordsIn(s) == UNION {AtomKeywords(s[i]) : i \in 1..Len(s)}

Lower(a) ==
    CASE a = "Delivery Issue" -> "delivery issue"
      [] a = "General Inquiry" -> "general inquiry"
      [] a = "Safety Issue" -> "safety issue"
      [] a = "Product Recall" -> "product recall"
      [] a = "Damaged Product" -> "damaged product"
      [] OTHER -> a

high_importance_keywords ==
    {"safety", "health", "medical", "surgical", "critical", "urgent",
     "emergency", "dangerous", "harmful", "injury", "infection", "contamination",
     "defective", "broken", "damaged", "faulty", "unsafe"}

critical_keywords ==
    {"life-threatening", "death", "fatal", "severe injury", "major safety",
     "recall", "contamination", "toxic", "poisonous", "explosive"}

resolution_keywords ==
    {"replaced", "refunded", "exchanged", "fixed", "resolved", "completed",
     "delivered", "shipped", "corrected", "addressed", "handled", "processed",
     "compensated", "reimbursed", "apologized", "acknowledged", "investigated"}

immediate_action_keywords ==
    {"immediately", "urgently", "right away", "asap", "promptly",
     "dispatched", "sent", "issued", "provided", "offered"}

quick_resolution_categories ==
    {"delivery issue", "billing issue", "order issue", "product issue"}

high_risk_categories == {"safety issue", "medical device", "pharmaceutical"}

\* a column that holds Python None instead of a str
NoneAtom == "<None>"

\* Database._determine_importance_level: "raise" when category.lower() is
\* reached on a None category
DetermineImportanceLevelMutHighFirst(category, description, root_cause, suggested_solution) ==
    LET text == KeywordsIn(<<description>>) \cup KeywordsIn(TextOf(root_cause))
                  \cup KeywordsIn(TextOf(suggested_solution))
    IN  IF Cardinality(text \cap high_importance_keywords) >= 2 THEN "High"
        ELSE IF text \cap critical_keywords # {} THEN "Critical"
        ELSE IF category = NoneAtom THEN "raise"
        ELSE IF Lower(category) \in high_risk_categories THEN "High"
        ELSE "Medium"
DetermineImportanceLevelMutLowDefault(category, description, root_cause, suggested_solution) ==
    LET text == KeywordsIn(<<description>>) \cup KeywordsIn(TextOf(root_cause))
                  \cup KeywordsIn(TextOf(suggested_solution))
    IN  IF text \cap critical_keywords # {} THEN "Critical"
        ELSE IF Cardinality(text \cap high_importance_keywords) >= 2 THEN "High"
        ELSE IF category = NoneAtom THEN "raise"
        ELSE IF Lower(category) \in high_risk_categories THEN "High"
        ELSE "Low"
DetermineImportanceLevel(category, description, root_cause, suggested_solution) ==
    LET text == KeywordsIn(<<description>>) \cup KeywordsIn(TextOf(root_cause))
                  \cup KeywordsIn(TextOf(suggested_solution))
    IN  IF text \cap critical_keywords # {} THEN "Critical"
        ELSE IF Cardinality(text \cap high_importance_keywords) >= 2 THEN "High"
        ELSE IF category = NoneAtom THEN "raise"
        ELSE IF Lower(category) \in high_risk_categories THEN "High"
        ELSE "Medium"

\* Database._should_auto_close: "yes", "no", or "raise" when category.lower()
\* is reached on a None category
ShouldAutoCloseMutNever(category, description, root_cause, suggested_solution) == "no"
ShouldAutoCloseMutAlways(category, description, root_cause, suggested_solution) == "yes"
ShouldAutoClose(category, description, root_cause, suggested_solution) ==
    LET text == KeywordsIn(TextOf(suggested_solution))
        resolution_count == Cardinality(text \cap resolution_keywords)
        immediate_count == Cardinality(text \cap immediate_action_keywords)
    IN  IF resolution_count >= 2 \/ immediate_count >= 1 THEN "yes"
        ELSE IF category = NoneAtom THEN "raise"
        ELSE IF Lower(category) \in quick_resolution_categories /\ resolution_count >= 1
             THEN "yes"
        ELSE "no"

ImportanceLevels == {"Low", "Medium", "High", "Critical"}

\* ------------------------------------------------------------------- store
\* The complaints table: a sequence of rows in insertion order.
HasId(st, id) == \E i \in 1..Len(st) : st[i].id = id

\* .filter_by(id=...).first()
IndexOfId(st, id) == CHOOSE i \in 1..Len(st) : st[i].id = id /\ \A j \in 1..(i - 1) : st[j].id # id

\* Database.clear_all_data
ClearAllData(st) == <<>>

\* Database.add_complaint.  data.received_at is "iso" (an ISO string) or
\* "absent" (no such key).  Returns the new table and the method's result
\* (Python's True and False are the atoms "True" and "False").
\* An existing row is overwritten from the dict and reset to Pending; the
\* dict's received_at string then fails the DateTime column at commit, which
\* rolls the update back.
AddComplaint(st, data) ==
    IF HasId(st, data.id)
    THEN IF data.received_at # "absent"
         THEN [store |-> st, result |-> "False"]
         ELSE LET i == IndexOfId(st, data.id)
              IN  [store |-> [st EXCEPT ![i] =
                                 [@ EXCEPT !.order_id = data.order_id,
                                           !.complaint_category = data.complaint_category,
                                           !.description = data.description,
                                           !.importance_level = data.importance_level,
                                           !.processed = "Pending",
                                           !.root_cause = PyNone,
                                           !.suggested_solution = PyNone,
                                           !.processed_at = "None"]],
                   result |-> "True"]
    ELSE IF data.received_at = "absent"
         THEN [store |-> st, result |-> "False"]
         ELSE [store |-> Append(st, [id |-> data.id,
                                     order_id |-> data.order_id,
                                     complaint_category |-> data.complaint_category,
                                     description |-> data.description,
                                     importance_level |-> "Medium",
                                     received_at |-> "datetime",
                                     processed |-> "Pending",
                                     root_cause |-> PyNone,
                                     suggested_solution |-> PyNone,
                                     processed_at |-> "None"]),
               result |-> "True"]

\* Database.get_unprocessed_complaints
GetUnprocessedComplaintsMutAlsoFailed(st) ==
    SelectSeq(st, LAMBDA r : r.processed \in {"Pending", "Failed"})
GetUnprocessedComplaints(st) == SelectSeq(st, LAMBDA r : r.processed = "Pending")

\* Database.update_complaint_analysis; importance_level is "None" or a string
UpdateComplaintAnalysis(st, id, root_cause, suggested_solution, importance_level) ==
    IF ~HasId(st, id) THEN [store |-> st, result |-> "False"]
    ELSE
    LET i == IndexOfId(st, id)
        c == st[i]
        close == ShouldAutoClose(c.complaint_category, c.description,
                                 root_cause, suggested_solution)
        derived == IF importance_level = "None"
                   THEN DetermineImportanceLevel(c.complaint_category, c.description,
                                                 root_cause, suggested_solution)
                   ELSE IF importance_level \in ImportanceLevels THEN importance_level
                   ELSE "Medium"
    IN  IF close = "raise" \/ derived = "raise"
        THEN [store |-> st, result |-> "False"]
        ELSE [store |-> [st EXCEPT ![i] =
                           [@ EXCEPT !.root_cause = root_cause,
                                     !.suggested_solution = suggested_solution,
                                     !.processed = IF close = "yes" THEN "Closed" ELSE "Successful",
                                     !.processed_at = "utcnow",
                                     !.importance_level = derived]],
              result |-> "True"]

\* the text of "closed" in a closure reason or a stored solution
MentionsClosed(s) == \E i \in 1..Len(s) : s[i] = "Manually closed"

\* Database.manually_close_complaint
ManuallyCloseComplaint(st, id, closure_reason) ==
    IF ~HasId(st, id) THEN [store |-> st, result |-> "False"]
    ELSE
    LET i == IndexOfId(st, id)
        c == st[i]
        current == IF c.suggested_solution.ty = "none" THEN <<>> ELSE StrOf(c.suggested_solution)
        solution == IF c.suggested_solution.ty = "none" \/ current = <<>>
                       \/ ~MentionsClosed(current)
                    THEN PyStr(current \o <<"\n", "\n">> \o closure_reason)
                    ELSE c.suggested_solution
    IN  [store |-> [st EXCEPT ![i] = [@ EXCEPT !.processed = "Closed",
                                               !.processed_at = "utcnow",
                                               !.suggested_solution = solution]],
         result |-> "True"]

\* Database.mark_complaint_failed
MarkComplaintFailedMutKeepStatus(st, id, error_message) ==
    IF ~HasId(st, id) THEN [store |-> st, result |-> "False"]
    ELSE [store |-> [st EXCEPT ![IndexOfId(st, id)] =
                       [@ EXCEPT !.root_cause = PyStr(<<"Processing Error">>),
                                 !.suggested_solution = PyStr(error_message),
                                 !.processed_at = "utcnow"]],
          result |-> "True"]
MarkComplaintFailed(st, id, error_message) ==
    IF ~HasId(st, id) THEN [store |-> st, result |-> "False"]
    ELSE [store |-> [st EXCEPT ![IndexOfId(st, id)] =
                       [@ EXCEPT !.processed = "Failed",
                                 !.root_cause = PyStr(<<"Processing Error">>),
                                 !.suggested_solution = PyStr(error_message),
                                 !.processed_at = "utcnow"]],
          result |-> "True"]

CountStatus(st, status) == Cardinality({i \in 1..Len(st) : st[i].processed = status})

\* ComplaintAnalysisSystem.reset_processed_complaints: the two bulk updates
ResetRowMutAlsoClosed(r) ==
    IF r.processed \in {"Successful", "Failed", "Closed"}
    THEN [r EXCEPT !.processed = "Pending", !.processed_at = "None",
                   !.root_cause = PyNone, !.suggested_solution = PyNone]
    ELSE r
ResetRowMutKeepProcessedAt(r) ==
    IF r.processed \in {"Successful", "Failed"}
    THEN [r EXCEPT !.processed = "Pending", !.root_cause = PyNone,
                   !.suggested_solution = PyNone]
    ELSE r
ResetRow(r) ==
    IF r.processed \in {"Successful", "Failed"}
    THEN [r EXCEPT !.processed = "Pending", !.processed_at = "None",
                   !.root_cause = PyNone, !.suggested_solution = PyNone]
    ELSE r

ResetProcessedComplaintsMutCountAfter(st) ==
    [store |-> [i \in 1..Len(st) |-> ResetRow(st[i])],
     successful_count |-> CountStatus([i \in 1..Len(st) |-> ResetRow(st[i])], "Successful"),
     failed_count |-> CountStatus([i \in 1..Len(st) |-> ResetRow(st[i])], "Failed")]
ResetProcessedComplaints(st) ==
    [store |-> [i \in 1..Len(st) |-> ResetRow(st[i])],
     successful_count |-> CountStatus(st, "Successful"),
     failed_count |-> CountStatus(st, "Failed")]

\* Database.get_database_stats: the counts by status and the share of
\* successful and failed records in percent (0 for an empty table)
GetDatabaseStatsMutSuccessfulOnly(st) ==
    [total |-> Len(st),
     pending |-> CountStatus(st, "Pending"),
     successful |-> CountStatus(st, "Successful"),
     failed |-> CountStatus(st, "Failed"),
     processed_percentage |->
         IF Len(st) = 0 THEN 0 ELSE (CountStatus(st, "Successful") * 100) \div Len(st)]
GetDatabaseStats(st) ==
    [total |-> Len(st),
     pending |-> CountStatus(st, "Pending"),
     successful |-> CountStatus(st, "Successful"),
     failed |-> CountStatus(st, "Failed"),
     processed_percentage |->
         IF Len(st) = 0 THEN 0
         ELSE ((CountStatus(st, "Successful") + CountStatus(st, "Failed")) * 100)
                \div Len(st)]

\* ComplaintAnalysisSystem.generate_report: the counts of the report
GenerateReport(st) ==
    [total_complaints |-> Len(st),
     processed_complaints |-> CountStatus(st, "Successful"),
     failed_complaints |-> CountStatus(st, "Failed"),
     pending_complaints |-> CountStatus(st, "Pending")]

\* ------------------------------------------------------------- ingestion
\* An id of the form COMP-###### (the prefix and exactly six digits)
MatchesIdPattern(id) ==
    /\ Len(id) = Len(IdPrefix) + IdWidth
    /\ SubSeq(id, 1, Len(IdPrefix)) = IdPrefix
    /\ \A i \in (Len(IdPrefix) + 1)..Len(id) : IsDigit(id[i])

IdNumber(id) == IntOf(SubSeq(id, Len(IdPrefix) + 1, Len(id)))

\* Database.get_next_complaint_id (called by get_complaints_data; its body
\* is not in database.py): the largest numeric suffix among the ids that
\* match the pattern, plus one, formatted; number 1 when none matches.
GetNextComplaintId(st) ==
    LET nums == {IdNumber(st[i].id) : i \in {j \in 1..Len(st) : MatchesIdPattern(st[j].id)}}
    IN  FormatComplaintId(IF nums = {} THEN 1 ELSE SetMax(nums) + 1)

\* get_complaints_data: int(starting_id.split('-')[1]), 1 on IndexError or
\* ValueError
StartingNumberMutWholeId(starting_id) ==
    IF IntParses(starting_id) THEN IntOf(starting_id) ELSE 1
StartingNumber(starting_id) ==
    LET parts == Split(starting_id, "-")
    IN  IF Len(parts) < 2 THEN 1
        ELSE IF ~IntParses(parts[2]) THEN 1
        ELSE IntOf(parts[2])

\* get_complaints_data with a database instance: one dict per sheet row, ids
\* numbered from the starting number in row order
GetComplaintsDataMutSameId(rows, st) ==
    LET starting_number == StartingNumber(GetNextComplaintId(st))
    IN  [i \in 1..Len(rows) |->
            [id |-> FormatComplaintId(starting_number),
             order_id |-> rows[i].order_id,
             complaint_category |-> rows[i].complaint_category,
             description |-> rows[i].description,
             importance_level |-> "None",
             received_at |-> "iso"]]
GetComplaintsDataMutDescending(rows, st) ==
    LET starting_number == StartingNumber(GetNextComplaintId(st))
    IN  [i \in 1..Len(rows) |->
            [id |-> FormatComplaintId(starting_number + (Len(rows) - i)),
             order_id |-> rows[i].order_id,
             complaint_category |-> rows[i].complaint_category,
             description |-> rows[i].description,
             importance_level |-> "None",
             received_at |-> "iso"]]
GetComplaintsData(rows, st) ==
    LET starting_number == StartingNumber(GetNextComplaintId(st))
    IN  [i \in 1..Len(rows) |->
            [id |-> FormatComplaintId(starting_number + (i - 1)),
             order_id |-> rows[i].order_id,
             complaint_category |-> rows[i].complaint_category,
             description |-> rows[i].description,
             importance_level |-> "None",
             received_at |-> "iso"]]

RECURSIVE AddAll(_, _, _)
\* the loop of load_complaints_data: add_complaint for each dict in order;
\* acc collects the results
AddAll(st, complaints, acc) ==
    IF complaints = <<>> THEN [store |-> st, results |-> acc]
    ELSE LET r == AddComplaint(st, Head(complaints))
         IN  AddAll(r.store, Tail(complaints), Append(acc, r.result))

\* ComplaintAnalysisSystem.load_complaints_data: a result counts as new only
\* if it equals "added" and as existing only if it equals "skipped"
LoadComplaintsData(rows, st) ==
    LET complaints == GetComplaintsData(rows, st)
        done == AddAll(st, complaints, <<>>)
    IN  [store |-> done.store,
         complaints |-> complaints,
         results |-> done.results,
         new_complaints_count |->
             Cardinality({i \in 1..Len(done.results) : done.results[i] = "added"}),
         existing_complaints_count |->
             Cardinality({i \in 1..Len(done.results) : done.results[i] = "skipped"})]

\* ------------------------------------------------------- reply texts
\* The content of a model reply is a sequence of tokens: braces, JSON
\* members (a key with a list of strings, a string or a number) and free
\* text.  A numbered point "1. late courier" is the str <<"1.", "late courier">>.
LBrace == [t |-> "{", key |-> "", shape |-> "", items |-> <<>>]
RBrace == [t |-> "}", key |-> "", shape |-> "", items |-> <<>>]
Member(key, items) == [t |-> "member", key |-> key, shape |-> "list", items |-> items]
Scalar(key, s) == [t |-> "member", key |-> key, shape |-> "str", items |-> <<s>>]
Words(s) == [t |-> "text", key |-> "", shape |-> "", items |-> <<s>>]

Markers == <<"1.", "2.", "3.">>
IsMarker(a) == \E n \in 1..3 : Markers[n] = a
IsSpace(a) == a \in {" ", "\n"}

\* len() of an atom, in characters
AtomLen(a) ==
    CASE a \in {"{", "}", "[", "]", ",", "\"", " ", "\n"} -> 1
      [] IsMarker(a) -> 2
      [] a = "ok" -> 2
      [] a = "sorry" -> 5
      [] a = "no comment" -> 10
      [] a = "" -> 0
      [] OTHER -> 14

RECURSIVE CharLen(_)
CharLen(s) == IF s = <<>> THEN 0 ELSE AtomLen(Head(s)) + CharLen(Tail(s))

RECURSIVE Strip(_)
\* s.strip()
Strip(s) ==
    IF s = <<>> THEN s
    ELSE IF IsSpace(Head(s)) THEN Strip(Tail(s))
    ELSE IF IsSpace(s[Len(s)]) THEN Strip(SubSeq(s, 1, Len(s) - 1))
    ELSE s

RECURSIVE RenderItems(_)
RenderItems(items) ==
    IF items = <<>> THEN <<>>
    ELSE <<"\"">> \o Head(items) \o <<"\"">>
         \o (IF Len(items) > 1 THEN <<",">> ELSE <<>>) \o RenderItems(Tail(items))

\* the characters of one token
RenderToken(tok) ==
    CASE tok.t = "{" -> <<"{">>
      [] tok.t = "}" -> <<"}">>
      [] tok.t = "text" -> tok.items[1]
      [] tok.t = "member" /\ tok.shape = "list" ->
            <<tok.key>> \o <<"[">> \o RenderItems(tok.items) \o <<"]">>
      [] OTHER -> <<tok.key>> \o RenderItems(tok.items)

RECURSIVE Render(_)
Render(text) == IF text = <<>> THEN <<>> ELSE RenderToken(Head(text)) \o Render(Tail(text))

\* re.search(r'\{[\s\S]*\}', text): from the first "{" to the last "}"
FirstLBrace(text) ==
    IF \E i \in 1..Len(text) : text[i].t = "{"
    THEN CHOOSE i \in 1..Len(text) : text[i].t = "{" /\ \A j \in 1..(i - 1) : text[j].t # "{"
    ELSE 0

LastRBrace(text) ==
    IF \E i \in 1..Len(text) : text[i].t = "}"
    THEN CHOOSE i \in 1..Len(text) : text[i].t = "}" /\ \A j \in (i + 1)..Len(text) : text[j].t # "}"
    ELSE 0

JsonMatch(text) ==
    IF FirstLBrace(text) > 0 /\ LastRBrace(text) > FirstLBrace(text)
    THEN SubSeq(text, FirstLBrace(text), LastRBrace(text))
    ELSE <<>>

\* json.loads of the matched span succeeds when it is an object of members
JsonLoads(span) ==
    /\ Len(span) >= 2
    /\ \A i \in 2..(Len(span) - 1) : span[i].t = "member"

HasKey(span, key) == \E i \in 2..(Len(span) - 1) : span[i].key = key

\* parsed_json[key]: the last member with that key
ValueOfKey(span, key) ==
    LET i == CHOOSE i \in 2..(Len(span) - 1) :
                 span[i].key = key /\ \A j \in (i + 1)..(Len(span) - 1) : span[j].key # key
    IN  IF span[i].shape = "list" THEN PyList(span[i].items) ELSE PyStr(span[i].items[1])

RECURSIVE PointsFrom(_, _, _)
\* the finditer loop over r'(?:1|2|3)\.\s*(.*?)(?=(?:1|2|3)\.|$)': chars is
\* the text after a marker, cur the point being read, acc the points kept
PointsFrom(chars, cur, acc) ==
    LET point == Strip(cur)
        kept == IF Len(acc) < 3 /\ point # <<>> /\ CharLen(point) < MaxPointLen
                THEN Append(acc, <<Markers[Len(acc) + 1]>> \o point)
                ELSE acc
    IN  IF chars = <<>> THEN kept
        ELSE IF IsMarker(Head(chars)) THEN PointsFrom(Tail(chars), <<>>, kept)
        ELSE PointsFrom(Tail(chars), Append(cur, Head(chars)), acc)

RECURSIVE AfterFirstMarker(_)
AfterFirstMarker(chars) ==
    IF chars = <<>> THEN <<>>
    ELSE IF IsMarker(Head(chars)) THEN chars
    ELSE AfterFirstMarker(Tail(chars))

ExtractPoints(text) ==
    LET chars == AfterFirstMarker(Render(text))
    IN  IF chars = <<>> THEN <<>> ELSE PointsFrom(Tail(chars), <<>>, <<>>)

PadTo3MutNoPadding(points, filler) == points
RECURSIVE PadTo3(_, _)
PadTo3(points, filler) ==
    IF Len(points) >= 3 THEN points
    ELSE PadTo3(Append(points, <<Markers[Len(points) + 1], filler>>), filler)

\* AIAnalyzer._extract_json_from_text
ExtractMutNeverError(text) ==
    [root_cause |-> PyList(PadTo3(ExtractPoints(text), "Analysis incomplete")),
     suggested_solution |-> PyList(PadTo3(ExtractPoints(text), "Solution pending")),
     has_error |-> FALSE, error |-> PyNone]
ExtractJsonFromText(text) ==
    LET span == JsonMatch(text) IN
    IF text = <<>> \/ CharLen(Strip(Render(text))) < MinReplyLen
    THEN [root_cause |-> PyList(<<<<"1.", "Error: Empty response">>,
                                  <<"2.", "Please try again">>,
                                  <<"3.", "System error">>>>),
          suggested_solution |-> PyList(<<<<"1.", "Retry analysis">>,
                                          <<"2.", "Check input">>,
                                          <<"3.", "Contact support">>>>),
          has_error |-> TRUE,
          error |-> PyStr(<<"Empty response">>)]
    ELSE IF /\ span # <<>>
            /\ JsonLoads(span)
            /\ HasKey(span, "root_cause") /\ HasKey(span, "suggested_solution")
            /\ ValueOfKey(span, "root_cause").ty = "list"
            /\ ValueOfKey(span, "suggested_solution").ty = "list"
            /\ Len(ValueOfKey(span, "root_cause").items) = 3
            /\ Len(ValueOfKey(span, "suggested_solution").items) = 3
    THEN [root_cause |-> ValueOfKey(span, "root_cause"),
          suggested_solution |-> ValueOfKey(span, "suggested_solution"),
          has_error |-> HasKey(span, "error"),
          error |-> IF HasKey(span, "error") THEN ValueOfKey(span, "error") ELSE PyNone]
    ELSE [root_cause |-> PyList(PadTo3(ExtractPoints(text), "Analysis incomplete")),
          suggested_solution |-> PyList(PadTo3(ExtractPoints(text), "Solution pending")),
          has_error |-> FALSE,
          error |-> PyNone]

\* ----------------------------------------------------- endpoint replies
ValidRootCauses ==
    <<<<"1.", "late courier">>, <<"2.", "bad packing">>, <<"3.", "no tracking">>>>
ValidSolutions ==
    <<<<"1.", "audit courier">>, <<"2.", "improve packing">>, <<"3.", "add tracking">>>>

\* a reply in the required format
ReplyValid ==
    <<LBrace, Member("root_cause", ValidRootCauses),
      Member("suggested_solution", ValidSolutions), RBrace>>

\* a reply cut off in the middle of the JSON object
ReplyMalformed ==
    <<LBrace, Member("root_cause", ValidRootCauses),
      Words(<<"suggested_solution", "[", "\"", "1.", "audit cour">>)>>

\* a reply of two characters
ReplyShort == <<Words(<<"ok">>)>>

\* a reply in the required format whose first root cause is the text "API Error"
ReplyApiError ==
    <<LBrace,
      Member("root_cause", <<<<"API Error">>, <<"2.", "bad packing">>, <<"3.", "no tracking">>>>),
      Member("suggested_solution", ValidSolutions), RBrace>>

\* a reply in the required format whose first solution promises a refund
ReplyResolved ==
    <<LBrace, Member("root_cause", ValidRootCauses),
      Member("suggested_solution",
             <<<<"1.", "refund issued promptly">>, <<"2.", "improve packing">>,
               <<"3.", "add tracking">>>>),
      RBrace>>

Replies == {ReplyValid, ReplyMalformed, ReplyShort, ReplyApiError, ReplyResolved}

\* ExtractJsonFromText, evaluated once for each reply of the endpoint
NormalizedReplies == [r \in Replies |-> ExtractJsonFromText(r)]
Normalize(content) ==
    IF content \in Replies THEN NormalizedReplies[content] ELSE ExtractJsonFromText(content)

\* ------------------------------------------------------ analysis client
\* str(v) of a Python value
StrValue(v) ==
    CASE v.ty = "none" -> <<"None">>
      [] v.ty = "str" -> StrOf(v)
      [] OTHER -> <<"[">> \o RenderItems(v.items) \o <<"]">>

NoResult ==
    [root_cause |-> PyNone, suggested_solution |-> PyNone,
     has_error |-> FALSE, error |-> PyNone, importance_level |-> "absent"]

\* the dict returned for an empty complaint text
EmptyComplaintResult ==
    [root_cause |-> PyStr(<<"Empty complaint">>),
     suggested_solution |-> PyStr(<<"No content to analyze">>),
     has_error |-> FALSE, error |-> PyNone, importance_level |-> "Medium"]

\* the dict returned once the retries are exhausted
ExhaustedResult(last_error) ==
    [root_cause |-> PyStr(<<"Failed after">> \o DecStr(max_retries) \o <<"attempts">>),
     suggested_solution |-> PyStr(<<"Last error:">> \o StrValue(last_error)),
     has_error |-> FALSE, error |-> PyNone, importance_level |-> "Medium"]

\* What the endpoint does on one call: requests.post raises ("exception"),
\* answers with a status other than 200 ("status"), answers 200 with a body
\* that is not the expected JSON ("badbody"), or answers 200 with a message
\* content ("ok"; the content may be empty).
Outcome(kind, content) == [kind |-> kind, content |-> content]

\* One pass through the body of the while loop of analyze_complaint, after
\* the call returned `outcome`: either a result is returned, or last_error
\* is set and retry_count is incremented.
AttemptMutExceptionReturns(retry_count, last_error, outcome) ==
    [returned |-> TRUE, result |-> ExhaustedResult(last_error),
     last_error |-> last_error, retry_count |-> retry_count]
AttemptMutEmptyNoCount(retry_count, last_error, outcome) ==
    IF outcome.kind = "ok" /\ outcome.content = <<>>
    THEN [returned |-> FALSE, result |-> NoResult,
          last_error |-> PyStr(<<"Empty response from AI">>),
          retry_count |-> retry_count]
    ELSE [returned |-> FALSE, result |-> NoResult,
          last_error |-> PyStr(<<"System Error:", "connection failed">>),
          retry_count |-> retry_count + 1]
Attempt(retry_count, last_error, outcome) ==
    CASE outcome.kind = "exception" ->
            [returned |-> FALSE, result |-> NoResult,
             last_error |-> PyStr(<<"System Error:", "connection failed">>),
             retry_count |-> retry_count + 1]
      [] outcome.kind = "status" ->
            [returned |-> FALSE, result |-> NoResult,
             last_error |-> PyStr(<<"API Error:", "HTTP 500:", "server detail">>),
             retry_count |-> retry_count + 1]
      [] outcome.kind = "badbody" ->
            [returned |-> FALSE, result |-> NoResult,
             last_error |-> PyStr(<<"Error processing response:", "Expecting value">>),
             retry_count |-> retry_count + 1]
      [] OTHER ->
            IF outcome.content = <<>>
            THEN [returned |-> FALSE, result |-> NoResult,
                  last_error |-> PyStr(<<"Empty response from AI">>),
                  retry_count |-> retry_count + 1]
            ELSE LET result == Normalize(outcome.content)
                 IN  IF ~result.has_error
                     THEN [returned |-> TRUE,
                           result |-> [root_cause |-> result.root_cause,
                                       suggested_solution |-> result.suggested_solution,
                                       has_error |-> FALSE, error |-> PyNone,
                                       importance_level |-> "absent"],
                           last_error |-> last_error,
                           retry_count |-> retry_count]
                     ELSE [returned |-> FALSE, result |-> NoResult,
                           last_error |-> result.error,
                           retry_count |-> retry_count + 1]

\* bool(v) of a Python value
Truthy(v) ==
    CASE v.ty = "none" -> FALSE
      [] v.ty = "str" -> CharLen(StrOf(v)) > 0
      [] OTHER -> v.items # <<>>

\* AIAnalyzer._create_analysis_prompt: the messages of one call
CreateAnalysisPrompt(complaint_text, error_message) ==
    LET messages ==
            <<[role |-> "system", content |-> <<"You are a complaint analysis expert">>],
              [role |-> "user",
               content |-> <<"Analyze this complaint", "\n", "\n">> \o complaint_text]>>
    IN  IF Truthy(error_message)
        THEN Append(messages,
                    [role |-> "user",
                     content |-> <<"Your response was incorrect.">> \o StrValue(error_message)
                                   \o <<". You MUST respond with EXACTLY the JSON object">>])
        ELSE messages

\* not complaint_text or len(complaint_text.strip()) == 0
IsBlankMutEmptyOnly(text) == text = <<>>
IsBlank(text) == Strip(text) = <<>> \/ CharLen(Strip(text)) = 0

\* ------------------------------------------------------- orchestrator
\* the f-string of process_complaints
ComplaintText(c) ==
    <<"\n", "Complaint Category:", c.complaint_category, "\n",
      "Product:", "\n", "Order ID:", c.order_id, "\n",
      "Description:", c.description, "\n">>

RECURSIVE Join(_)
\* '\n'.join(items)
Join(items) ==
    IF items = <<>> THEN <<>>
    ELSE IF Len(items) = 1 THEN Head(items)
    ELSE Head(items) \o <<"\n">> \o Join(Tail(items))

\* "API Error" in analysis.get('root_cause', ''): substring search in a str,
\* membership of the exact element in a list
ContainsApiError(analysis) ==
    IF analysis.root_cause.ty = "str"
    THEN \E i \in 1..Len(StrOf(analysis.root_cause)) :
             StrOf(analysis.root_cause)[i] \in {"API Error", "API Error:"}
    ELSE \E i \in 1..Len(analysis.root_cause.items) :
             analysis.root_cause.items[i] = <<"API Error">>

\* the conversion of a list to a string for storage
ToStored(v) == IF v.ty = "list" THEN PyStr(Join(v.items)) ELSE v

\* str(e) of the exception raised by _analyze_single_complaint
ApiErrorMessage(analysis) == <<"API Error:">> \o StrValue(analysis.suggested_solution)

\* the message process_complaints stores with a failed complaint
FailedMessage(analysis) ==
    <<"Failed to process after">> \o DecStr(system_max_retries) \o <<"attempts:">>
      \o ApiErrorMessage(analysis)

\* ------------------------------------------------------------ inputs
\* rows of the spreadsheet (header -> value)
SheetRows ==
    {[order_id |-> "ORD-1", complaint_category |-> "Delivery Issue",
      description |-> "parcel arrived late"],
     [order_id |-> "ORD-2", complaint_category |-> "General Inquiry",
      description |-> "broken seal caused injury"],
     [order_id |-> "", complaint_category |-> "General Inquiry",
      description |-> "parcel arrived late"]}

Outcomes ==
    {Outcome("exception", <<>>), Outcome("status", <<>>), Outcome("badbody", <<>>),
     Outcome("ok", <<>>)} \cup {Outcome("ok", r) : r \in Replies}

NoOutcome == Outcome("none", <<>>)

\* a reply that parses to the required 3-point object
IsValidReply(o) ==
    /\ o.kind = "ok"
    /\ JsonMatch(o.content) # <<>>
    /\ JsonLoads(JsonMatch(o.content))
    /\ HasKey(JsonMatch(o.content), "root_cause")
    /\ HasKey(JsonMatch(o.content), "suggested_solution")
    /\ Len(ValueOfKey(JsonMatch(o.content), "root_cause").items) = 3
    /\ Len(ValueOfKey(JsonMatch(o.content), "suggested_solution").items) = 3

\* a reply with content that is not such an object
IsMalformedReply(o) == o.kind = "ok" /\ o.content # <<>> /\ ~IsValidReply(o)

IsFailure(o) ==
    \/ o.kind \in {"exception", "status", "badbody"}
    \/ o.kind = "ok" /\ o.content = <<>>
    \/ o.kind = "ok" /\ o.content # <<>> /\ Normalize(o.content).has_error

\* what sheet.get_all_records() can return: up to MaxRows rows
Sheets == UNION {[1..n -> SheetRows] : n \in 0..MaxRows}

\* ------------------------------------------------------------- state
VARIABLES
    store,          \* the complaints table
    out,            \* what the last menu handler reported
    pc,             \* "menu", or "run" inside process_complaints
    unprocessed,    \* the complaints still to process in this run (head: current)
    tries,          \* failed outer tries of the current complaint
    apc,            \* the analysis client: Idle, Start, Sending, Success, Exhausted, Empty
    retry_count,    \* analyze_complaint's retry_count
    last_error,     \* analyze_complaint's last_error
    calls,          \* outbound calls made by the current invocation
    analysis,       \* the dict the invocation returned
    lastOutcome,    \* what the endpoint did on the latest call of the invocation
    runExhausted,   \* ids whose invocation ended Exhausted in this run
    issued          \* every id ever inserted into the table

vars == <<store, out, pc, unprocessed, tries, apc, retry_count, last_error,
          calls, analysis, lastOutcome, runExhausted, issued>>

clientVars == <<retry_count, last_error, calls, analysis, lastOutcome>>
runVars == <<pc, unprocessed, tries, apc, runExhausted>>

NoStats == [total |-> 0, pending |-> 0, successful |-> 0, failed |-> 0,
            processed_percentage |-> 0]

NoReport == GenerateReport(<<>>)

NoOut == [op |-> "none", ids |-> <<>>, results |-> <<>>, added |-> 0, skipped |-> 0,
          reused |-> {}, successful_count |-> 0, failed_count |-> 0, stats |-> NoStats,
          text |-> <<>>, messages |-> <<>>, confirmations |-> 0, batch |-> <<>>,
          report |-> NoReport]

IdsOf(st) == {st[i].id : i \in 1..Len(st)}

Init ==
    /\ store = <<>>
    /\ out = NoOut
    /\ pc = "menu"
    /\ unprocessed = <<>>
    /\ tries = 0
    /\ apc = "Idle"
    /\ retry_count = 0
    /\ last_error = PyNone
    /\ calls = 0
    /\ analysis = NoResult
    /\ lastOutcome = NoOutcome
    /\ runExhausted = {}
    /\ issued = {}

ClientReset ==
    /\ retry_count' = 0
    /\ last_error' = PyNone
    /\ calls' = 0
    /\ analysis' = NoResult
    /\ lastOutcome' = NoOutcome

\* what load_complaints_data reports, with the ids it inserted that had
\* been inserted before
LoadOut(before, r) ==
    [NoOut EXCEPT !.op = "load",
                  !.ids = [i \in 1..Len(r.complaints) |-> r.complaints[i].id],
                  !.batch = r.complaints,
                  !.results = r.results,
                  !.added = r.new_complaints_count,
                  !.skipped = r.existing_complaints_count,
                  !.reused = (IdsOf(r.store) \ IdsOf(before)) \cap issued]

\* menu choice 2: load_complaints_data; rows is what the sheet holds now
LoadNew(rows) ==
    /\ pc = "menu"
    /\ Len(store) + Len(rows) <= MaxRecords
    /\ LET r == LoadComplaintsData(rows, store)
       IN  /\ store' = r.store
           /\ out' = LoadOut(store, r)
           /\ issued' = issued \cup IdsOf(r.store)
    /\ UNCHANGED runVars
    /\ UNCHANGED clientVars

\* the start of a processing loop over the selected rows
BeginRun(selected) ==
    /\ unprocessed' = selected
    /\ pc' = IF selected = <<>> THEN "menu" ELSE "run"
    /\ apc' = IF selected = <<>> THEN "Idle" ELSE "Start"
    /\ tries' = 0
    /\ runExhausted' = {}
    /\ ClientReset

\* process_complaints up to the loop: select the pending rows
BeginProcess(st) == BeginRun(GetUnprocessedComplaints(st))

\* the query of process_pending_and_failed_complaints
GetPendingAndFailedMutAll(st) == st
GetPendingAndFailed(st) ==
    SelectSeq(st, LAMBDA r : r.processed \in {"Pending", "Failed"})

\* ComplaintProcessor.process_pending_and_failed_complaints up to the loop;
\* the loop body is that of process_complaints
ProcessPendingAndFailed ==
    /\ pc = "menu"
    /\ BeginRun(GetPendingAndFailed(store))
    /\ out' = [NoOut EXCEPT !.op = "reprocess",
                            !.ids = [i \in 1..Len(GetPendingAndFailed(store)) |->
                                        GetPendingAndFailed(store)[i].id]]
    /\ UNCHANGED <<store, issued>>

\* menu choice 3: process_complaints
ProcessUnprocessed ==
    /\ pc = "menu"
    /\ BeginProcess(store)
    /\ out' = [NoOut EXCEPT !.op = "process"]
    /\ UNCHANGED <<store, issued>>

ConfirmPhrase == "Yes, I understand what am I doing"

\* confirm_full_refresh
ConfirmFullRefresh(first, phrase) == first \in {"y", "yes"} /\ phrase = ConfirmPhrase

\* the number of prompts of confirm_full_refresh that were answered as asked
Confirmations(first, phrase) ==
    IF first \notin {"y", "yes"} THEN 0
    ELSE IF phrase # ConfirmPhrase THEN 1
    ELSE 2

\* menu choice 1: clear, load, process
FullRefresh(first, phrase, rows) ==
    /\ pc = "menu"
    /\ IF ConfirmFullRefresh(first, phrase)
       THEN LET r == LoadComplaintsData(rows, ClearAllData(store))
            IN  /\ store' = r.store
                /\ out' = [LoadOut(ClearAllData(store), r) EXCEPT
                               !.op = "refresh",
                               !.confirmations = Confirmations(first, phrase)]
                /\ issued' = issued \cup IdsOf(r.store)
                /\ BeginProcess(r.store)
       ELSE UNCHANGED vars

\* menu choice 4: reset_processed_complaints
ResetAll ==
    /\ pc = "menu"
    /\ LET r == ResetProcessedComplaints(store)
       IN  /\ store' = r.store
           /\ out' = [NoOut EXCEPT !.op = "reset",
                                   !.successful_count = r.successful_count,
                                   !.failed_count = r.failed_count]
    /\ UNCHANGED issued
    /\ UNCHANGED runVars
    /\ UNCHANGED clientVars

\* the entry of analyze_complaint(complaint_text): the empty-text return,
\* or the locals of the retry loop
AnalyzeEntry(complaint_text) ==
    /\ IF IsBlank(complaint_text)
       THEN /\ apc' = "Empty"
            /\ analysis' = EmptyComplaintResult
       ELSE /\ apc' = "Sending"
            /\ analysis' = NoResult
    /\ retry_count' = 0
    /\ last_error' = PyNone
    /\ calls' = 0
    /\ lastOutcome' = NoOutcome

\* analyze_complaint is entered with the text of the current complaint
Enter ==
    /\ pc = "run" /\ apc = "Start"
    /\ AnalyzeEntry(ComplaintText(Head(unprocessed)))
    /\ UNCHANGED <<store, out, pc, unprocessed, tries, runExhausted, issued>>

\* the condition of the while loop
AttemptsRemainMutOneMore(count) == count <= max_retries
AttemptsRemain(count) == count < max_retries

\* one iteration of the retry loop: the call is made and the endpoint answers;
\* when the method returns, its locals retry_count and last_error are gone
AnalyzeCallMutFirstError(o) ==
    /\ apc = "Sending"
    /\ LET a == Attempt(retry_count, last_error, o)
           kept == IF last_error # PyNone THEN last_error ELSE a.last_error
       IN  /\ calls' = calls + 1
           /\ lastOutcome' = o
           /\ retry_count' = IF a.returned THEN 0 ELSE a.retry_count
           /\ last_error' = IF a.returned THEN PyNone ELSE kept
           /\ apc' = IF a.returned THEN "Success"
                     ELSE IF AttemptsRemain(a.retry_count) THEN "Sending"
                     ELSE "Exhausted"
           /\ analysis' = IF a.returned THEN a.result
                          ELSE IF AttemptsRemain(a.retry_count) THEN NoResult
                          ELSE ExhaustedResult(kept)
AnalyzeCall(o) ==
    /\ apc = "Sending"
    /\ LET a == Attempt(retry_count, last_error, o)
       IN  /\ calls' = calls + 1
           /\ lastOutcome' = o
           /\ retry_count' = IF a.returned THEN 0 ELSE a.retry_count
           /\ last_error' = IF a.returned THEN PyNone ELSE a.last_error
           /\ apc' = IF a.returned THEN "Success"
                     ELSE IF AttemptsRemain(a.retry_count) THEN "Sending"
                     ELSE "Exhausted"
           /\ analysis' = IF a.returned THEN a.result
                          ELSE IF AttemptsRemain(a.retry_count) THEN NoResult
                          ELSE ExhaustedResult(a.last_error)

Send(o) ==
    /\ pc = "run"
    /\ AnalyzeCall(o)
    /\ UNCHANGED <<store, out, pc, unprocessed, tries, runExhausted, issued>>

\* the write of the loop body for complaint c and what the Database method
\* returns; when the session's commit raises (commit_ok false), the method
\* rolls back and returns False
WriteOfMutHalfWritten(c, commit_ok) ==
    IF ContainsApiError(analysis)
    THEN MarkComplaintFailed(store, c.id, FailedMessage(analysis))
    ELSE [UpdateComplaintAnalysis(store, c.id, ToStored(analysis.root_cause),
                                  ToStored(analysis.suggested_solution), "None")
            EXCEPT !.result = IF commit_ok THEN @ ELSE "False"]
WriteOfMutFirstRecord(c, commit_ok) ==
    IF ContainsApiError(analysis)
    THEN MarkComplaintFailed(store, store[1].id, FailedMessage(analysis))
    ELSE UpdateComplaintAnalysis(store, store[1].id, ToStored(analysis.root_cause),
                                 ToStored(analysis.suggested_solution), "None")
WriteOfMutStoreError(c, commit_ok) ==
    UpdateComplaintAnalysis(store, c.id, ToStored(analysis.root_cause),
                            ToStored(analysis.suggested_solution), "None")
WriteOfMutDeferred(c, commit_ok) == [store |-> store, result |-> "True"]
WriteOf(c, commit_ok) ==
    IF ~commit_ok THEN [store |-> store, result |-> "False"]
    ELSE IF ContainsApiError(analysis)
    THEN MarkComplaintFailed(store, c.id, FailedMessage(analysis))
    ELSE UpdateComplaintAnalysis(store, c.id, ToStored(analysis.root_cause),
                                 ToStored(analysis.suggested_solution), "None")

\* the rest of the loop body of process_complaints once analyze_complaint
\* has returned: _analyze_single_complaint raises on "API Error" and is
\* tried again by the backoff decorator; otherwise the analysis is stored;
\* when the last try raised too, the complaint is marked failed
ReturnStep(commit_ok) ==
    /\ pc = "run" /\ apc \in {"Success", "Exhausted", "Empty"}
    /\ LET c == Head(unprocessed)
           rest == Tail(unprocessed)
       IN  IF ContainsApiError(analysis) /\ tries + 1 < max_tries
           THEN /\ tries' = tries + 1
                /\ apc' = "Start"
                /\ UNCHANGED <<store, unprocessed>>
           ELSE /\ store' = WriteOf(c, commit_ok).store
                /\ unprocessed' = rest
                /\ tries' = 0
                /\ apc' = IF rest = <<>> THEN "Idle" ELSE "Start"
    /\ runExhausted' = IF apc = "Exhausted"
                       THEN runExhausted \cup {Head(unprocessed).id} ELSE runExhausted
    /\ ClientReset
    /\ UNCHANGED <<pc, issued>>

Return ==
    /\ ReturnStep(TRUE)
    /\ UNCHANGED out

\* process_complaints returns to the menu
EndRun ==
    /\ pc = "run" /\ apc = "Idle"
    /\ pc' = "menu"
    /\ runExhausted' = {}
    /\ UNCHANGED <<store, out, unprocessed, tries, apc, issued>>
    /\ UNCHANGED clientVars

Next ==
    \/ \E rows \in Sheets : LoadNew(rows)
    \/ ProcessUnprocessed
    \/ ProcessPendingAndFailed
    \/ \E first \in {"y", "n"}, phrase \in {ConfirmPhrase, "yes"}, rows \in Sheets :
           FullRefresh(first, phrase, rows)
    \/ ResetAll
    \/ Enter
    \/ \E o \in Outcomes : Send(o)
    \/ Return
    \/ EndRun

Spec == Init /\ [][Next]_vars

\* --------------------------------------------- the store's own interface
\* The methods of Database called directly, with arguments a caller can
\* pass: ids that exist or not, conforming or not, dicts with or without a
\* received_at key.
ApiIds ==
    {FormatComplaintId(7),
     <<"C", "O", "M", "P", "-", "0", "0", "1">>,
     <<"X", "7">>}

ApiRow ==
    [order_id |-> "ORD-1", complaint_category |-> "Delivery Issue",
     description |-> "parcel arrived late"]

ApiData ==
    {[id |-> id, order_id |-> ApiRow.order_id,
      complaint_category |-> ApiRow.complaint_category,
      description |-> ApiRow.description,
      importance_level |-> "None", received_at |-> at] :
        id \in ApiIds, at \in {"iso", "absent"}}

\* root cause and solution passed to update_complaint_analysis
ApiAnalyses ==
    {<<PyNone, PyNone>>,
     <<PyStr(<<"1.", "late courier">>), PyStr(<<"1.", "audit courier">>)>>,
     <<PyStr(<<"1.", "late courier">>), PyStr(<<"1.", "refund issued promptly">>)>>}

ApiUnchanged ==
    /\ UNCHANGED <<runVars, issued>>
    /\ UNCHANGED clientVars

ApiOut(op, result) == [NoOut EXCEPT !.op = op, !.results = <<result>>]

ApiAdd(data) ==
    /\ Len(store) < MaxRecords
    /\ LET r == AddComplaint(store, data)
       IN  /\ store' = r.store
           /\ out' = ApiOut("add", r.result)
    /\ ApiUnchanged

\* get_complaints_data and add_complaint for one row of the sheet
ApiLoad(row) ==
    /\ Len(store) < MaxRecords
    /\ LET r == LoadComplaintsData(<<row>>, store)
       IN  /\ store' = r.store
           /\ out' = ApiOut("load", r.results[1])
    /\ ApiUnchanged

ApiUpdate(id, root_cause, suggested_solution, importance_level) ==
    /\ LET r == UpdateComplaintAnalysis(store, id, root_cause, suggested_solution,
                                        importance_level)
       IN  /\ store' = r.store
           /\ out' = [ApiOut("update", r.result) EXCEPT !.ids = <<id>>]
    /\ ApiUnchanged

ApiMarkFailed(id, error_message) ==
    /\ LET r == MarkComplaintFailed(store, id, error_message)
       IN  /\ store' = r.store
           /\ out' = [ApiOut("fail", r.result) EXCEPT !.ids = <<id>>]
    /\ ApiUnchanged

ApiManualClose(id) ==
    /\ LET r == ManuallyCloseComplaint(store, id, <<"Manually closed">>)
       IN  /\ store' = r.store
           /\ out' = ApiOut("close", r.result)
    /\ ApiUnchanged

ApiReset ==
    /\ LET r == ResetProcessedComplaints(store)
       IN  /\ store' = r.store
           /\ out' = [NoOut EXCEPT !.op = "reset",
                                   !.successful_count = r.successful_count,
                                   !.failed_count = r.failed_count]
    /\ ApiUnchanged

ApiClear ==
    /\ store' = ClearAllData(store)
    /\ out' = ApiOut("clear", "True")
    /\ ApiUnchanged

NextStore ==
    \/ \E data \in ApiData : ApiAdd(data)
    \/ ApiLoad(ApiRow)
    \/ \E id \in ApiIds, a \in ApiAnalyses, imp \in {"None", "Low"} :
           ApiUpdate(id, a[1], a[2], imp)
    \/ \E id \in ApiIds : ApiMarkFailed(id, <<"Failed to process">>)
    \/ \E id \in ApiIds : ApiManualClose(id)
    \/ ApiReset
    \/ ApiClear

SpecStore == Init /\ [][NextStore]_vars

\* ------------------------------------------------- id assignment alone
\* get_complaints_data applied to tables that hold conforming and
\* non-conforming ids: the table is filled by add_complaint with ids from
\* IdPool, then one sheet is read.
MaxIdRecords == 3

IdPool ==
    {FormatComplaintId(7),
     FormatComplaintId(99),
     <<"C", "O", "M", "P", "-", "0", "0", "1">>,
     <<"C", "O", "M", "P", "-", "0", "0", "0", "0", "0", "0", "7">>,
     <<"X", "7">>}

IdsAdd(id) ==
    /\ out.op \in {"none", "add"}
    /\ Len(store) < MaxIdRecords
    /\ LET r == AddComplaint(store, [id |-> id, order_id |-> ApiRow.order_id,
                                     complaint_category |-> ApiRow.complaint_category,
                                     description |-> ApiRow.description,
                                     importance_level |-> "None", received_at |-> "iso"])
       IN  /\ store' = r.store
           /\ out' = ApiOut("add", r.result)
    /\ ApiUnchanged

IdsLoad(rows) ==
    /\ out.op \in {"none", "add"}
    /\ rows # <<>>
    /\ LET r == LoadComplaintsData(rows, store)
       IN  /\ store' = r.store
           /\ out' = [LoadOut(store, r) EXCEPT !.reused = {}]
    /\ ApiUnchanged

NextIds ==
    \/ \E id \in IdPool : IdsAdd(id)
    \/ \E rows \in Sheets : IdsLoad(rows)

SpecIds == Init /\ [][NextIds]_vars

\* ------------------------------------------------- tables of any mix
\* reset_processed_complaints applied to a table of up to MaxTableRecords
\* records in any mix of statuses.  The table is what load_complaints_data
\* and the Database methods leave behind: the rows are loaded, then each is
\* analysed, closed or marked failed as its status says.
MaxTableRecords == 3

Statuses == {"Pending", "Successful", "Failed", "Closed"}

RECURSIVE ApplyStatuses(_, _, _)
ApplyStatuses(st, statuses, i) ==
    IF i > Len(statuses) THEN st
    ELSE LET id == st[i].id
             next ==
                 CASE statuses[i] = "Successful" ->
                        UpdateComplaintAnalysis(st, id, PyStr(<<"1.", "late courier">>),
                                                PyStr(<<"1.", "audit courier">>), "None").store
                   [] statuses[i] = "Closed" ->
                        UpdateComplaintAnalysis(st, id, PyStr(<<"1.", "late courier">>),
                                                PyStr(<<"1.", "refund issued promptly">>),
                                                "None").store
                   [] statuses[i] = "Failed" ->
                        MarkComplaintFailed(st, id, <<"Failed to process">>).store
                   [] OTHER -> st
         IN  ApplyStatuses(next, statuses, i + 1)

TableOf(statuses) ==
    ApplyStatuses(LoadComplaintsData([i \in 1..Len(statuses) |-> ApiRow], <<>>).store,
                  statuses, 1)

Tables == {TableOf(s) : s \in UNION {[1..n -> Statuses] : n \in 0..MaxTableRecords}}

InitTables ==
    /\ store \in Tables
    /\ out = NoOut
    /\ pc = "menu"
    /\ unprocessed = <<>>
    /\ tries = 0
    /\ apc = "Idle"
    /\ retry_count = 0
    /\ last_error = PyNone
    /\ calls = 0
    /\ analysis = NoResult
    /\ lastOutcome = NoOutcome
    /\ runExhausted = {}
    /\ issued = {}

TblReset ==
    /\ out.op = "none"
    /\ ApiReset

NextTables == TblReset

SpecTables == InitTables /\ [][NextTables]_vars

\* ------------------------------------------- the analysis client alone
\* analyze_complaint called with any text, against an endpoint that answers
\* each call in any way; out holds the text passed and the messages of the
\* latest call.
ClientTexts ==
    {<<>>, <<" ">>, <<"\n", " ", "\n">>, <<"parcel arrived late">>,
     <<"\n", "Description:", "broken seal caused injury", "\n">>}

\* a reply in the required format with a further key "error": ""
ReplyEmptyError ==
    <<LBrace, Member("root_cause", ValidRootCauses),
      Member("suggested_solution", ValidSolutions), Scalar("error", <<>>), RBrace>>

\* a reply in the required format with a further key "error": "overloaded"
ReplyWithError ==
    <<LBrace, Member("root_cause", ValidRootCauses),
      Member("suggested_solution", ValidSolutions),
      Scalar("error", <<"overloaded">>), RBrace>>

ClientOutcomes ==
    {Outcome("exception", <<>>), Outcome("status", <<>>), Outcome("badbody", <<>>),
     Outcome("ok", <<>>), Outcome("ok", ReplyValid), Outcome("ok", ReplyShort),
     Outcome("ok", ReplyWithError), Outcome("ok", ReplyEmptyError)}

ClientEnter(complaint_text) ==
    /\ pc = "menu" /\ apc = "Idle"
    /\ AnalyzeEntry(complaint_text)
    /\ out' = [NoOut EXCEPT !.op = "analyze", !.text = complaint_text]
    /\ UNCHANGED <<store, pc, unprocessed, tries, runExhausted, issued>>

ClientSend(o) ==
    /\ pc = "menu"
    /\ AnalyzeCall(o)
    /\ out' = [out EXCEPT !.messages = CreateAnalysisPrompt(out.text, last_error)]
    /\ UNCHANGED <<store, pc, unprocessed, tries, runExhausted, issued>>

NextClient ==
    \/ \E t \in ClientTexts : ClientEnter(t)
    \/ \E o \in ClientOutcomes : ClientSend(o)

SpecClient == Init /\ [][NextClient]_vars

\* ------------------------------------------------- statistics of a table
\* menu choice 5, show_statistics: prints what get_database_stats returns
ShowStatistics ==
    /\ pc = "menu"
    /\ out' = [NoOut EXCEPT !.op = "stats", !.stats = GetDatabaseStats(store)]
    /\ UNCHANGED store
    /\ ApiUnchanged

NextStats == ShowStatistics \/ TblReset

SpecStats == InitTables /\ [][NextStats]_vars

\* ------------------------------------- pending and failed, run again
\* process_pending_and_failed_complaints on a table of any mix of statuses,
\* with the two counters of its loop
ReprocessOutcomes ==
    {Outcome("exception", <<>>), Outcome("ok", ReplyValid), Outcome("ok", ReplyApiError)}

\* the loop body: processed_count counts the updates that returned True,
\* failed_count the updates that returned False and the complaints marked
\* failed
RpReturn ==
    /\ out.op = "reprocess"
    /\ ReturnStep(TRUE)
    /\ out' = IF ContainsApiError(analysis) /\ tries + 1 < max_tries
              THEN out
              ELSE IF /\ ~ContainsApiError(analysis)
                      /\ WriteOf(Head(unprocessed), TRUE).result = "True"
              THEN [out EXCEPT !.successful_count = @ + 1]
              ELSE [out EXCEPT !.failed_count = @ + 1]

NextReprocess ==
    \/ ProcessPendingAndFailed
    \/ Enter
    \/ \E o \in ReprocessOutcomes : Send(o)
    \/ RpReturn
    \/ EndRun

SpecReprocess == InitTables /\ [][NextReprocess]_vars

\* ------------------------------------------------- the report of a table
\* generate_report called on a table of any mix of statuses
ShowReport ==
    /\ pc = "menu"
    /\ out' = [NoOut EXCEPT !.op = "report", !.report = GenerateReport(store)]
    /\ UNCHANGED store
    /\ ApiUnchanged

NextReport == ShowReport \/ TblReset

SpecReport == InitTables /\ [][NextReport]_vars

\* ------------------------------------------- importance of one complaint
\* update_complaint_analysis applied to one stored complaint, for the
\* categories and descriptions a sheet can hold and the analyses the client
\* can return, with and without a supplied importance level.
ImpId == FormatComplaintId(1)

ImpCategories ==
    {"General Inquiry", "Delivery Issue", "Safety Issue", "Product Recall",
     "Damaged Product", NoneAtom}

ImpDescriptions ==
    {"parcel arrived late", "seal was broken", "broken seal caused injury",
     "toxic smell, product recall"}

ImpAnalyses ==
    {<<PyStr(<<"1.", "late courier">>), PyStr(<<"1.", "audit courier">>)>>,
     <<PyStr(<<"1.", "packaging damaged">>), PyStr(<<"1.", "audit courier">>)>>,
     <<PyStr(<<"1.", "late courier">>), PyStr(<<"1.", "urgent safety review">>)>>,
     <<PyStr(<<"1.", "contamination at plant">>), PyStr(<<"1.", "audit courier">>)>>}

\* importance levels a caller passes: a valid one and an unrecognised one
ImpSupplied == {"Low", "Urgent"}

ImpAdd(category, description) ==
    /\ store = <<>>
    /\ ApiAdd([id |-> ImpId, order_id |-> "ORD-1",
               complaint_category |-> category, description |-> description,
               importance_level |-> "None", received_at |-> "iso"])

\* update_complaint_analysis(id, root_cause, suggested_solution)
ImpUpdate(root_cause, suggested_solution) ==
    /\ store # <<>>
    /\ ApiUpdate(ImpId, root_cause, suggested_solution, "None")

\* update_complaint_analysis(id, root_cause, suggested_solution, level)
ImpUpdateLevel(root_cause, suggested_solution, level) ==
    /\ store # <<>>
    /\ LET r == UpdateComplaintAnalysis(store, ImpId, root_cause, suggested_solution,
                                        level)
       IN  /\ store' = r.store
           /\ out' = [ApiOut("update_level", r.result) EXCEPT !.ids = <<ImpId>>]
    /\ ApiUnchanged

NextImp ==
    \/ \E c \in ImpCategories, d \in ImpDescriptions : ImpAdd(c, d)
    \/ \E a \in ImpAnalyses : ImpUpdate(a[1], a[2])
    \/ \E a \in ImpAnalyses, l \in ImpSupplied : ImpUpdateLevel(a[1], a[2], l)

SpecImp == Init /\ [][NextImp]_vars

\* ------------------------------------------------ writes that may fail
\* add_complaint called directly and the run of process_complaints over the
\* rows it inserted, where the commit of any write may raise (a locked or
\* full database file) and where a row may carry no category.
WriteIds == {FormatComplaintId(1), FormatComplaintId(2)}

WriteData ==
    {[id |-> id, order_id |-> "ORD-1", complaint_category |-> category,
      description |-> "parcel arrived late",
      importance_level |-> "None", received_at |-> at] :
        id \in WriteIds, category \in {"Delivery Issue", NoneAtom},
        at \in {"iso", "absent"}}

\* replies of the endpoint during these runs
WriteOutcomes == {Outcome("exception", <<>>), Outcome("ok", ReplyValid)}

\* add_complaint(data); commit_ok false: session.commit() raises, the
\* except branch rolls back and returns False
WrAdd(data, commit_ok) ==
    /\ pc = "menu"
    /\ LET r == IF commit_ok THEN AddComplaint(store, data)
                ELSE [store |-> store, result |-> "False"]
       IN  /\ store' = r.store
           /\ out' = [ApiOut("add", r.result) EXCEPT !.ids = <<data.id>>]
    /\ ApiUnchanged

\* the loop body of process_complaints with the outcome of its write, as
\* the method returned it and the loop logged it
WrReturn(commit_ok) ==
    /\ ReturnStep(commit_ok)
    /\ out' = IF ContainsApiError(analysis) /\ tries + 1 < max_tries
              THEN out
              ELSE [ApiOut("write", WriteOf(Head(unprocessed), commit_ok).result)
                       EXCEPT !.ids = <<Head(unprocessed).id>>]

NextWrite ==
    \/ \E data \in WriteData, commit_ok \in BOOLEAN : WrAdd(data, commit_ok)
    \/ ProcessUnprocessed
    \/ Enter
    \/ \E o \in WriteOutcomes : Send(o)
    \/ \E commit_ok \in BOOLEAN : WrReturn(commit_ok)
    \/ EndRun

SpecWrite == Init /\ [][NextWrite]_vars

\* ------------------------------------------------ the normaliser alone
\* _extract_json_from_text and the loop body of analyze_complaint applied to
\* one reply: any text of up to MaxReplyTokens tokens.
MaxReplyTokens == 3
MaxWrapTokens == 1

ReplyTokens ==
    {LBrace, RBrace,
     Member("root_cause", ValidRootCauses),
     Member("suggested_solution", ValidSolutions),
     Member("root_cause", <<<<"1.", "late courier">>, <<"2.", "bad packing">>>>),
     Scalar("error", <<"overloaded">>),
     Words(<<"1.", "late courier", "2.", "bad packing">>),
     Words(<<"no comment">>)}

TokenSeqs(n) == UNION {[1..k -> ReplyTokens] : k \in 0..n}

\* objects in the required format: as asked for, with the keys in the other
\* order, and with a further key
ReplyObjects ==
    {ReplyValid,
     <<LBrace, Member("suggested_solution", ValidSolutions),
       Member("root_cause", ValidRootCauses), RBrace>>,
     <<LBrace, Member("root_cause", ValidRootCauses),
       Member("suggested_solution", ValidSolutions),
       Scalar("error", <<"overloaded">>), RBrace>>}

\* any short text, and any object with text before and after it
ReplyTexts ==
    TokenSeqs(MaxReplyTokens)
      \cup {pre \o obj \o post :
               pre \in TokenSeqs(MaxWrapTokens), obj \in ReplyObjects,
               post \in TokenSeqs(MaxWrapTokens)}

\* the first call of an invocation is answered with `text`: analysis holds
\* the dict _extract_json_from_text makes of it, the other variables what
\* the loop body does with the reply
NormApply(text) ==
    /\ lastOutcome = NoOutcome
    /\ LET a == Attempt(0, PyNone, Outcome("ok", text))
           result == Normalize(text)
       IN  /\ lastOutcome' = Outcome("ok", text)
           /\ analysis' = [root_cause |-> result.root_cause,
                           suggested_solution |-> result.suggested_solution,
                           has_error |-> result.has_error,
                           error |-> result.error,
                           importance_level |-> "absent"]
           /\ calls' = 1
           /\ retry_count' = a.retry_count
           /\ last_error' = a.last_error
           /\ apc' = IF a.returned THEN "Success" ELSE "Sending"
    /\ UNCHANGED <<store, out, pc, unprocessed, tries, runExhausted, issued>>

NextNorm == \E text \in ReplyTexts : NormApply(text)

SpecNorm == Init /\ [][NextNorm]_vars

\* ------------------------------------------------------------ fairness
\* Every outbound call returns or fails, and the interpreter keeps running
\* the method it is in.
FairSpec ==
    /\ Spec
    /\ WF_vars(Enter)
    /\ WF_vars(\E o \in Outcomes : Send(o))

\* ======================================================== properties
SameOrderId(r, q) == r.order_id # "" /\ r.order_id = q.order_id

\* C1: the table holds at most one record for each non-empty order_id,
\* whatever sequence of add_complaint calls and sheet loads produced it.
C1_OneRecordPerOrderId ==
    \A i, j \in 1..Len(store) : (i # j) => ~SameOrderId(store[i], store[j])

\* C2: when add_complaint is given data whose order_id (or id) matches a
\* record of the table, the table is left exactly as it was.
C2_MatchLeavesStoreUnchanged ==
    [][(/\ out'.op \in {"add", "load"}
        /\ \E i \in 1..Len(store) : SameOrderId(store[i], ApiRow))
       => store' = store]_vars

AnalysisIsNull(r) ==
    /\ r.root_cause = PyNone
    /\ r.suggested_solution = PyNone
    /\ r.processed_at = "None"

\* C3: in every reachable state a record is Pending if and only if its
\* root_cause, suggested_solution and processed_at are all null.
C3_PendingIffAnalysisNull ==
    \A i \in 1..Len(store) : (store[i].processed = "Pending") <=> AnalysisIsNull(store[i])

\* C3 witness: a reset has put at least one analysed record back to Pending
\* while another record, closed by hand from Pending, keeps a null root_cause.
C3_Witness ==
    /\ out.op = "reset"
    /\ out.successful_count + out.failed_count > 0
    /\ \E i \in 1..Len(store) : store[i].processed = "Pending"
    /\ \E i \in 1..Len(store) :
           store[i].processed = "Closed" /\ store[i].root_cause = PyNone

\* C4: when process_complaints has gone through its list, every complaint
\* whose analyze_complaint call ran out of retries has status Failed.
C4_ExhaustedEndsFailed ==
    (pc = "run" /\ apc = "Idle") =>
        \A i \in 1..Len(store) :
            (store[i].id \in runExhausted) => store[i].processed = "Failed"

\* C5: a reply that is not the required 3-point JSON object, received while
\* attempts remain, is followed by another call (so that a valid reply on
\* call k+1 is the one that is stored, after exactly k+1 calls).
C5_MalformedReplyIsRetried ==
    [][(/\ apc = "Sending"
        /\ calls' = calls + 1
        /\ IsMalformedReply(lastOutcome')
        /\ calls' < max_retries)
       => apc' = "Sending"]_vars

\* C6: one invocation of analyze_complaint makes at most max_retries
\* outbound calls; it ends with fewer only in Success; it ends Exhausted
\* only after exactly max_retries calls that all failed.
C6_AtMostThreeCalls ==
    /\ calls <= max_retries
    /\ (apc \in {"Success", "Exhausted"} /\ calls < max_retries) => apc = "Success"
    /\ (apc = "Exhausted") => (calls = max_retries /\ retry_count = max_retries)
    /\ (apc = "Sending") => (retry_count = calls /\ calls < max_retries)

\* C6 witness: an invocation has ended Exhausted after three calls.
C6_Witness == apc = "Exhausted" /\ calls = max_retries /\ IsFailure(lastOutcome)

\* C7: an invocation moves Start -> Sending -> {Sending | Success |
\* Exhausted}; every step out of Sending that does not succeed adds one to
\* the attempt counter; and an invocation that has started eventually is
\* in Success or Exhausted (or has returned at once on an empty text).
C7_StateMachineTerminates ==
    /\ [][/\ (apc = "Start") => apc' \in {"Start", "Sending", "Empty"}
          /\ (apc = "Sending") => apc' \in {"Sending", "Success", "Exhausted"}
          /\ (apc = "Sending" /\ apc' # "Success") => retry_count' = retry_count + 1
          /\ (apc = "Sending" /\ apc' = "Sending") => AttemptsRemain(retry_count')
          /\ (apc = "Sending" /\ apc' = "Exhausted") => ~AttemptsRemain(retry_count')
          /\ (apc' = "Sending") => apc \in {"Start", "Sending"}
          /\ (apc' \in {"Success", "Exhausted"}) => apc = "Sending"]_vars
    /\ (apc = "Start") ~> (apc \in {"Success", "Exhausted", "Empty"})
    /\ (apc = "Sending") ~> (apc \in {"Success", "Exhausted"})

\* C7 witness: an invocation reached Success on its third call, after two
\* failures that each went back to Sending.
C7_Witness == apc = "Success" /\ calls = max_retries

\* C8: an exception of the transport, a status other than 200, an empty
\* content and a normalisation result with an error marker are handled
\* alike: the call counts as exactly one attempt, no result is returned,
\* and another call follows if and only if attempts remain.
C8_FailuresTreatedAlike ==
    [][(/\ apc = "Sending"
        /\ calls' = calls + 1
        /\ IsFailure(lastOutcome'))
       => /\ retry_count' = retry_count + 1
          /\ apc' = IF AttemptsRemain(retry_count') THEN "Sending" ELSE "Exhausted"
          /\ apc' = "Sending" => analysis' = NoResult
          /\ apc' # "Success"]_vars

\* C8 witness: the second call got a reply that the normaliser marked as an
\* error, after a first call that failed in another way, and a third call
\* is due.
C8_Witness ==
    /\ apc = "Sending"
    /\ calls = 2
    /\ retry_count = 2
    /\ lastOutcome = Outcome("ok", ReplyShort)
    /\ last_error = PyStr(<<"Empty response">>)

\* the ids a step inserted, given the table before it
InsertedAbove(before, after) ==
    \A i \in (Len(before) + 1)..Len(after) :
        /\ MatchesIdPattern(after[i].id)
        /\ \A j \in 1..(i - 1) :
               MatchesIdPattern(after[j].id) => IdNumber(after[i].id) > IdNumber(after[j].id)

DistinctIds(st) == \A i, j \in 1..Len(st) : (i # j) => st[i].id # st[j].id

\* C9 as stated: no id is ever given to a record a second time during the
\* lifetime of the table, clears included.
C9_IdNeverReused == out.reused = {}

\* C9 amended: every record inserted by a load gets an id whose number is
\* greater than that of every record in the table at that moment (after
\* clear_all_data the table is empty and numbering starts again at 1), so
\* the ids in the table are always pairwise distinct.
C9_InsertedAboveExisting ==
    [][/\ (pc = "menu" /\ out'.op = "load") => InsertedAbove(store, store')
       /\ (pc = "menu" /\ out'.op = "refresh") => InsertedAbove(ClearAllData(store), store')
       /\ DistinctIds(store')]_vars

\* C9 witness: a sheet of one row was loaded into a table that already
\* held a record, and the row was inserted.
C9_Witness ==
    /\ out.op = "load"
    /\ Len(out.ids) = 1
    /\ Len(store) = 2
    /\ out.ids[1] = store[2].id

\* C10: the first id get_complaints_data assigns is the largest number among
\* the ids of the form COMP-###### plus one, zero-padded to six digits:
\* COMP-000001 for a table with no such id, COMP-000008 when COMP-000007 is
\* the largest, whatever other ids the table holds; the load never fails.
C10_NextIdIsMaxPlusOne ==
    [][(out'.op = "load")
       => LET conforming == {i \in 1..Len(store) : MatchesIdPattern(store[i].id)}
              first == out'.ids[1]
          IN  /\ MatchesIdPattern(first)
              /\ out'.results[1] = "True"
              /\ store'[Len(store) + 1].id = first
              /\ (conforming = {}) =>
                     first = <<"C", "O", "M", "P", "-", "0", "0", "0", "0", "0", "1">>
              /\ (conforming # {}) =>
                     /\ \A i \in conforming : IdNumber(first) > IdNumber(store[i].id)
                     /\ \E i \in conforming : IdNumber(first) = IdNumber(store[i].id) + 1
              /\ (HasId(store, FormatComplaintId(7)) /\ ~HasId(store, FormatComplaintId(99))) =>
                     first = <<"C", "O", "M", "P", "-", "0", "0", "0", "0", "0", "8">>]_vars

\* C10 witness: COMP-000008 was assigned in a table that holds COMP-000007
\* next to two ids that do not have the form.
C10_Witness ==
    /\ out.op = "load"
    /\ HasId(store, <<"X", "7">>)
    /\ HasId(store, <<"C", "O", "M", "P", "-", "0", "0", "1">>)
    /\ HasId(store, FormatComplaintId(7))
    /\ out.ids[1] = <<"C", "O", "M", "P", "-", "0", "0", "0", "0", "0", "8">>

\* the descriptive fields of a record
SameDescription(r, q) ==
    /\ r.id = q.id
    /\ r.order_id = q.order_id
    /\ r.complaint_category = q.complaint_category
    /\ r.description = q.description
    /\ r.received_at = q.received_at

\* every record but the first one with this id is what it was
OthersUnchanged(before, after, id) ==
    /\ Len(after) = Len(before)
    /\ \A j \in 1..Len(before) :
           (~HasId(before, id) \/ j # IndexOfId(before, id)) => after[j] = before[j]

\* a step of update_complaint_analysis called with the id out'.ids[1]
IsUpdateStep == out'.op = "update" /\ Len(out'.ids) = 1

\* the auto-close rule, read off the stored record: two resolution keywords
\* or one immediate-action keyword in the solution text, or one resolution
\* keyword when the category is one of the quick-resolution categories
AutoCloseRule(r) ==
    /\ r.suggested_solution.ty = "str"
    /\ LET found == KeywordsIn(StrOf(r.suggested_solution))
       IN  \/ Cardinality(found \cap resolution_keywords) >= 2
           \/ Cardinality(found \cap immediate_action_keywords) >= 1
           \/ /\ Lower(r.complaint_category) \in quick_resolution_categories
              /\ Cardinality(found \cap resolution_keywords) >= 1

\* C11 as stated: update_complaint_analysis on an existing Pending record
\* makes it Successful, sets processed_at, and changes nothing else; on an
\* id that is not in the table it returns False and changes nothing.
C11_UpdateMakesSuccessful ==
    [][IsUpdateStep =>
          LET id == out'.ids[1] IN
          IF HasId(store, id)
          THEN (store[IndexOfId(store, id)].processed = "Pending") =>
                   /\ store'[IndexOfId(store, id)].processed = "Successful"
                   /\ store'[IndexOfId(store, id)].processed_at = "utcnow"
                   /\ SameDescription(store'[IndexOfId(store, id)], store[IndexOfId(store, id)])
                   /\ OthersUnchanged(store, store', id)
          ELSE out'.results = <<"False">> /\ store' = store]_vars

\* C11 amended: update_complaint_analysis on an existing Pending record
\* makes it Closed when the solution text triggers the auto-close rule and
\* Successful otherwise, sets root_cause, suggested_solution and
\* processed_at, keeps the descriptive fields and every other record; on an
\* id that is not in the table it returns False and changes nothing.
C11_UpdateMakesSuccessfulOrClosed ==
    [][IsUpdateStep =>
          LET id == out'.ids[1] IN
          IF HasId(store, id)
          THEN LET i == IndexOfId(store, id) IN
               /\ out'.results = <<"True">>
               /\ store'[i].processed \in {"Successful", "Closed"}
               /\ (store'[i].processed = "Closed") <=> AutoCloseRule(store'[i])
               /\ store'[i].processed_at = "utcnow"
               /\ \E a \in ApiAnalyses :
                      store'[i].root_cause = a[1] /\ store'[i].suggested_solution = a[2]
               /\ SameDescription(store'[i], store[i])
               /\ OthersUnchanged(store, store', id)
          ELSE out'.results = <<"False">> /\ store' = store]_vars

\* C11 witness: a Pending record has been closed by update_complaint_analysis
\* next to another record.
C11_Witness ==
    /\ out.op = "update"
    /\ out.results = <<"True">>
    /\ Len(store) = 2
    /\ store[IndexOfId(store, out.ids[1])].processed = "Closed"
    /\ store[IndexOfId(store, out.ids[1])].root_cause = PyStr(<<"1.", "late courier">>)

\* C12 as stated: ingestion and orchestrator runs leave every record
\* Pending, Successful or Failed; completing an analysis never closes one.
C12_NeverClosed ==
    \A i \in 1..Len(store) : store[i].processed \in {"Pending", "Successful", "Failed"}

\* C12 amended: every record is Pending, Successful, Failed or Closed, and
\* on the orchestrator's path a record is Closed exactly when its analysis
\* was stored and the auto-close rule holds for its solution text, and
\* Successful exactly when its analysis was stored and the rule does not hold.
C12_ClosedIffAutoCloseRule ==
    \A i \in 1..Len(store) :
        /\ store[i].processed \in {"Pending", "Successful", "Failed", "Closed"}
        /\ (store[i].processed = "Closed") => AutoCloseRule(store[i])
        /\ (store[i].processed = "Successful") => ~AutoCloseRule(store[i])

\* C12 witness: a run stored one analysis that closed its complaint and one
\* that did not.
C12_Witness ==
    /\ pc = "run"
    /\ \E i \in 1..Len(store) : store[i].processed = "Closed"
    /\ \E i \in 1..Len(store) : store[i].processed = "Successful"

\* a record put back to Pending with its analysis cleared
Cleared(r) ==
    [r EXCEPT !.processed = "Pending", !.root_cause = PyNone,
              !.suggested_solution = PyNone, !.processed_at = "None"]

C14_MarkFailedSetsFields ==
    [][(out'.op = "fail" /\ Len(out'.ids) = 1) =>
          LET id == out'.ids[1] IN
          IF HasId(store, id)
          THEN LET i == IndexOfId(store, id) IN
               /\ out'.results = <<"True">>
               /\ store'[i] = [store[i] EXCEPT
                                  !.processed = "Failed",
                                  !.root_cause = PyStr(<<"Processing Error">>),
                                  !.suggested_solution = PyStr(<<"Failed to process">>),
                                  !.processed_at = "utcnow"]
               /\ OthersUnchanged(store, store', id)
          ELSE out'.results = <<"False">> /\ store' = store]_vars

\* C14 witness: a Successful record stands next to the record that was just
\* marked failed.
C14_Witness ==
    /\ out.op = "fail"
    /\ out.results = <<"True">>
    /\ Len(store) = 2
    /\ store[IndexOfId(store, out.ids[1])].processed = "Failed"
    /\ \E j \in 1..2 : store[j].processed = "Successful"

\* the operation a step belongs to: inside a processing loop the loop that
\* was started ("run" for process_complaints, "rerun" for
\* process_pending_and_failed_complaints), otherwise the menu handler taken
StepOp ==
    IF pc = "run" THEN (IF out.op = "reprocess" THEN "rerun" ELSE "run") ELSE out'.op

\* the status changes the claim allows
ClaimedEdge(a, b, op) ==
    \/ a = b
    \/ op \in {"run", "rerun"} /\ a = "Pending" /\ b \in {"Successful", "Failed"}
    \/ op = "reset" /\ a \in {"Successful", "Failed"} /\ b = "Pending"

\* the status changes the operations make
LifecycleEdge(a, b, op) ==
    \/ a = b
    \/ op \in {"run", "rerun"} /\ a = "Pending" /\ b \in {"Successful", "Closed", "Failed"}
    \/ op = "rerun" /\ a = "Failed" /\ b \in {"Successful", "Closed"}
    \/ op = "reset" /\ a \in {"Successful", "Failed"} /\ b = "Pending"

\* C15 as stated: records are created Pending; a status changes only from
\* Pending to Successful or Failed in a processing loop and from Successful
\* or Failed to Pending in the bulk reset; records disappear only in the
\* bulk clear.
C15_ClaimedLifecycle ==
    [][IF StepOp = "refresh"
       THEN \A i \in 1..Len(store') : store'[i].processed = "Pending"
       ELSE /\ Len(store') >= Len(store)
            /\ \A i \in 1..Len(store) :
                   /\ store'[i].id = store[i].id
                   /\ ClaimedEdge(store[i].processed, store'[i].processed, StepOp)
            /\ \A i \in (Len(store) + 1)..Len(store') : store'[i].processed = "Pending"]_vars

\* C15 amended: records are created Pending; process_complaints moves a
\* Pending record to Successful, Closed or Failed; the loop over pending and
\* failed records also moves a Failed record to Successful or Closed; only
\* the bulk reset moves Successful or Failed records to Pending; a Closed
\* record stays Closed; no step moves a Successful record to Failed; loading
\* changes no existing record; records disappear only in the bulk clear.
C15_Lifecycle ==
    [][IF StepOp = "refresh"
       THEN \A i \in 1..Len(store') : store'[i].processed = "Pending"
       ELSE /\ Len(store') >= Len(store)
            /\ \A i \in 1..Len(store) :
                   /\ store'[i].id = store[i].id
                   /\ LifecycleEdge(store[i].processed, store'[i].processed, StepOp)
                   /\ (StepOp = "load") => store'[i] = store[i]
            /\ \A i \in (Len(store) + 1)..Len(store') : store'[i].processed = "Pending"]_vars

\* C15 witness: the loop over pending and failed records selected a record
\* that was Failed, the analysis of it has come back without an error, and
\* the record is still Failed in the table until the result is stored.
C15_Witness ==
    /\ pc = "run"
    /\ out.op = "reprocess"
    /\ apc = "Success"
    /\ Head(unprocessed).processed = "Failed"
    /\ store[IndexOfId(store, Head(unprocessed).id)].processed = "Failed"
    /\ ~ContainsApiError(analysis)

\* the reply the normaliser was applied to
ReplyText == lastOutcome.content

\* a list member of the reply with this key and exactly three items
IsList3(tok, key) ==
    tok.t = "member" /\ tok.key = key /\ tok.shape = "list" /\ Len(tok.items) = 3

\* tokens i..j of the text are a JSON object whose members include one
\* 3-item root_cause list and one 3-item suggested_solution list
ValidObjectAt(text, i, j) ==
    /\ i < j
    /\ text[i].t = "{"
    /\ text[j].t = "}"
    /\ \A k \in (i + 1)..(j - 1) : text[k].t = "member"
    /\ Cardinality({k \in (i + 1)..(j - 1) : text[k].key = "root_cause"}) = 1
    /\ Cardinality({k \in (i + 1)..(j - 1) : text[k].key = "suggested_solution"}) = 1
    /\ \E k \in (i + 1)..(j - 1) : IsList3(text[k], "root_cause")
    /\ \E k \in (i + 1)..(j - 1) : IsList3(text[k], "suggested_solution")

\* C16: whenever the reply contains such an object, the normaliser returns
\* the object's three root causes and three solutions, in order, and no
\* error marker.
C16_ValidObjectReturned ==
    (lastOutcome.kind = "ok") =>
        \A i, j \in 1..Len(ReplyText) :
            ValidObjectAt(ReplyText, i, j) =>
                /\ ~analysis.has_error
                /\ \E k \in (i + 1)..(j - 1) :
                       /\ IsList3(ReplyText[k], "root_cause")
                       /\ analysis.root_cause = PyList(ReplyText[k].items)
                /\ \E k \in (i + 1)..(j - 1) :
                       /\ IsList3(ReplyText[k], "suggested_solution")
                       /\ analysis.suggested_solution = PyList(ReplyText[k].items)

\* len(text.strip()) of the reply
ReplyLen == CharLen(Strip(Render(ReplyText)))

\* the fixed result for a reply that is too short
ShortReplyResult(a) ==
    /\ a.has_error
    /\ a.error = PyStr(<<"Empty response">>)
    /\ a.root_cause = PyList(<<<<"1.", "Error: Empty response">>,
                               <<"2.", "Please try again">>,
                               <<"3.", "System error">>>>)
    /\ a.suggested_solution = PyList(<<<<"1.", "Retry analysis">>,
                                       <<"2.", "Check input">>,
                                       <<"3.", "Contact support">>>>)

\* C17: for a reply that is empty or shorter than 20 characters once
\* stripped, the normaliser returns the fixed placeholder result with the
\* error marker, nothing of the reply is extracted, and the client counts a
\* failed attempt and goes on to the next call.
C17_ShortReplyIsError ==
    (lastOutcome.kind = "ok" /\ ReplyLen < MinReplyLen) =>
        /\ ShortReplyResult(analysis)
        /\ apc = "Sending"
        /\ retry_count = 1

\* C17 witness: a reply of two braces around a ten-character text.
C17_Witness ==
    /\ lastOutcome = Outcome("ok", <<LBrace, Words(<<"no comment">>), RBrace>>)
    /\ ReplyLen = 12
    /\ analysis.has_error
    /\ apc = "Sending"

\* the list is the recovered points, in order, followed by placeholders
\* numbered by position, three items in all
PaddedWith(list, points, filler) ==
    /\ list.ty = "list"
    /\ Len(list.items) = 3
    /\ \A n \in 1..3 :
           list.items[n] = IF n <= Len(points) THEN points[n] ELSE <<Markers[n], filler>>

\* C18: every list the normaliser returns has exactly three items; when
\* extraction from a reply (of 20 characters or more) recovers fewer than
\* three points, the list is the recovered points in their order followed
\* by "N. Analysis incomplete" (root causes) or "N. Solution pending"
\* (solutions) up to three.
C18_PaddedToThree ==
    (lastOutcome.kind = "ok") =>
        /\ analysis.root_cause.ty = "list" /\ Len(analysis.root_cause.items) = 3
        /\ analysis.suggested_solution.ty = "list"
        /\ Len(analysis.suggested_solution.items) = 3
        /\ (ReplyLen >= MinReplyLen /\ Len(ExtractPoints(ReplyText)) < 3) =>
               /\ PaddedWith(analysis.root_cause, ExtractPoints(ReplyText),
                             "Analysis incomplete")
               /\ PaddedWith(analysis.suggested_solution, ExtractPoints(ReplyText),
                             "Solution pending")
        /\ (ReplyText = <<Words(<<"1.", "late courier", "2.", "bad packing">>)>>) =>
               analysis.root_cause =
                   PyList(<<<<"1.", "late courier">>, <<"2.", "bad packing">>,
                            <<"3.", "Analysis incomplete">>>>)
        /\ (ReplyText = <<Words(<<"no comment">>), Words(<<"no comment">>)>>) =>
               analysis.suggested_solution =
                   PyList(<<<<"1.", "Solution pending">>, <<"2.", "Solution pending">>,
                            <<"3.", "Solution pending">>>>)

\* C18 witness: two points were recovered from a text without an object and
\* one placeholder was added to each list.
C18_Witness ==
    /\ lastOutcome = Outcome("ok", <<Words(<<"no comment">>),
                                     Words(<<"1.", "late courier", "2.", "bad packing">>)>>)
    /\ analysis.root_cause.items[2] = <<"2.", "bad packing">>
    /\ analysis.root_cause.items[3] = <<"3.", "Analysis incomplete">>
    /\ analysis.suggested_solution.items[3] = <<"3.", "Solution pending">>

\* nothing was extracted from the reply: it holds no numbered point, hence
\* no 3-point object either
NothingExtracted == ExtractPoints(ReplyText) = <<>>

\* C19: for every reply text the normaliser returns a structure and never an
\* exception; a reply from which nothing could be extracted is returned with
\* the error field; the client retries a received reply exactly when the
\* field is present.
C19_ExtractionFailureHasErrorField ==
    (lastOutcome.kind = "ok") =>
        /\ analysis.root_cause.ty = "list"
        /\ analysis.suggested_solution.ty = "list"
        /\ (apc = "Sending") <=> analysis.has_error
        /\ NothingExtracted => analysis.has_error

\* keywords of the record's description, root cause and solution
AnalysedWords(r) ==
    AtomKeywords(r.description) \cup KeywordsIn(TextOf(r.root_cause))
      \cup KeywordsIn(TextOf(r.suggested_solution))

\* the importance rule over a set of keywords and a category
RuleOver(words, category) ==
    IF words \cap critical_keywords # {} THEN "Critical"
    ELSE IF Cardinality(words \cap high_importance_keywords) >= 2 THEN "High"
    ELSE IF Lower(category) \in high_risk_categories THEN "High"
    ELSE "Medium"

\* the record an update without a level has just completed on
AutoLevelDone == out.op = "update" /\ out.results = <<"True">>
Updated == store[IndexOfId(store, out.ids[1])]

\* C20 as stated: the keywords are searched in the combined category,
\* description, root cause and solution text.
C20_RuleOverCategoryToo ==
    AutoLevelDone =>
        Updated.importance_level =
            RuleOver(AnalysedWords(Updated) \cup AtomKeywords(Updated.complaint_category),
                     Updated.complaint_category)

\* C20: when no importance level is supplied, update_complaint_analysis
\* stores the level of the rule applied to the keywords of the description,
\* root cause and solution (the category is not searched): a critical
\* keyword gives Critical; else two or more high keywords give High; else a
\* high-risk category gives High; else Medium.  A description with "recall"
\* and "toxic" gives Critical, one with "injury" and "broken" and no critical
\* keyword gives High, "General Inquiry" without a keyword gives Medium.
C20_ImportanceRule ==
    AutoLevelDone =>
        /\ Updated.importance_level =
               RuleOver(AnalysedWords(Updated), Updated.complaint_category)
        /\ Updated.description = "toxic smell, product recall" =>
               Updated.importance_level = "Critical"
        /\ (/\ Updated.description = "broken seal caused injury"
            /\ AnalysedWords(Updated) \cap critical_keywords = {}) =>
               Updated.importance_level = "High"
        /\ (/\ Updated.complaint_category = "General Inquiry"
            /\ AnalysedWords(Updated)
                  \cap (critical_keywords \cup high_importance_keywords) = {}) =>
               Updated.importance_level = "Medium"

\* C20 witness: a complaint whose category names a recall, with no keyword
\* in description or analysis, was analysed without a level and got Medium.
C20_Witness ==
    /\ AutoLevelDone
    /\ Updated.complaint_category = "Product Recall"
    /\ Updated.description = "parcel arrived late"
    /\ Updated.root_cause = PyStr(<<"1.", "late courier">>)
    /\ Updated.importance_level = "Medium"

\* C21: after any sequence of loads and processing runs (no caller passes
\* an importance level there), every record's importance level is Medium,
\* High or Critical, never Low.
C21_NeverLow ==
    \A i \in 1..Len(store) : store[i].importance_level \in {"Medium", "High", "Critical"}

\* C21 witness: back at the menu, one analysed record kept the Medium of its
\* insertion and another was raised to High by the rule.
C21_Witness ==
    /\ pc = "menu"
    /\ \E i, j \in 1..Len(store) :
          /\ store[i].processed = "Successful" /\ store[i].importance_level = "Medium"
          /\ store[j].processed = "Successful" /\ store[j].importance_level = "High"

\* C22: the statistics report total = number of records, pending,
\* successful and failed = number of records in that status, and the
\* processed percentage = (successful + failed) / total in whole percent,
\* which is 0 for an empty table.
C22_StatsCountTheTable ==
    (out.op = "stats") =>
        LET s == out.stats
            n(status) == Cardinality({i \in 1..Len(store) : store[i].processed = status})
        IN  /\ s.total = Len(store)
            /\ s.pending = n("Pending")
            /\ s.successful = n("Successful")
            /\ s.failed = n("Failed")
            /\ (Len(store) = 0) => s.processed_percentage = 0
            /\ (Len(store) > 0) =>
                   /\ s.processed_percentage * Len(store) <= 100 * (n("Successful") + n("Failed"))
                   /\ 100 * (n("Successful") + n("Failed"))
                         < (s.processed_percentage + 1) * Len(store)

\* C22 witness: statistics of a table of three records, one successful,
\* one failed and one pending: 66 percent processed.
C22_Witness ==
    /\ out.op = "stats"
    /\ Len(store) = 3
    /\ out.stats.successful = 1 /\ out.stats.failed = 1 /\ out.stats.pending = 1
    /\ out.stats.processed_percentage = 66

\* C23: analyze_complaint called with an empty or whitespace-only text
\* returns the "Empty complaint" result and makes no outbound call.
C23_EmptyTextNoCall ==
    (out.op = "analyze" /\ \A i \in 1..Len(out.text) : out.text[i] \in {" ", "\n"}) =>
        /\ apc = "Empty"
        /\ calls = 0
        /\ lastOutcome = NoOutcome
        /\ analysis.root_cause = PyStr(<<"Empty complaint">>)
        /\ analysis.suggested_solution = PyStr(<<"No content to analyze">>)
        /\ analysis.importance_level = "Medium"

\* C23 witness: the invocation with a text of a newline, a blank and a
\* newline has returned.
C23_Witness ==
    /\ out.op = "analyze"
    /\ out.text = <<"\n", " ", "\n">>
    /\ apc = "Empty"

\* the error text analyze_complaint notes for what the endpoint did
ObservedError(o) ==
    CASE o.kind = "exception" -> <<"System Error:", "connection failed">>
      [] o.kind = "status" -> <<"API Error:", "HTTP 500:", "server detail">>
      [] o.kind = "badbody" -> <<"Error processing response:", "Expecting value">>
      [] o.content = <<>> -> <<"Empty response from AI">>
      [] o.content = ReplyShort -> <<"Empty response">>
      [] o.content = ReplyWithError -> <<"overloaded">>
      [] OTHER -> <<>>

\* C24: when analyze_complaint has exhausted its retries, the returned
\* root_cause states the attempt count 3 and the returned suggested_solution
\* holds the error of the last (third) call; a successful return carries no
\* error marker.
C24_ExhaustedNamesLastError ==
    /\ (apc = "Exhausted") =>
           /\ calls = max_retries
           /\ analysis.root_cause = PyStr(<<"Failed after", "3", "attempts">>)
           /\ analysis.suggested_solution =
                  PyStr(<<"Last error:">> \o ObservedError(lastOutcome))
           /\ analysis.importance_level = "Medium"
    /\ (apc = "Success") => ~analysis.has_error /\ analysis.error = PyNone

\* C24 witness: the second call raised, the third was answered with a body
\* that is not JSON, and the result names the third call's error.
C24_Witness ==
    /\ apc = "Exhausted"
    /\ Len(out.messages) = 3
    /\ out.messages[3].content[2] = "System Error:"
    /\ lastOutcome.kind = "badbody"
    /\ analysis.suggested_solution =
           PyStr(<<"Last error:", "Error processing response:", "Expecting value">>)

\* C30: the first call of an invocation sends the system message and one
\* user message; every later call sends those two and one more user message
\* that names the error of the call just before it.
C30_OneCorrectiveMessage ==
    [][(out.op = "analyze" /\ calls' = calls + 1) =>
          LET sent == out'.messages
          IN  /\ sent[1].role = "system"
              /\ sent[2].role = "user"
              /\ sent[2].content = <<"Analyze this complaint", "\n", "\n">> \o out.text
              /\ (calls = 0) => Len(sent) = 2
              /\ (calls > 0) =>
                     /\ Len(sent) = 3
                     /\ sent[3].role = "user"
                     /\ sent[3].content =
                            <<"Your response was incorrect.">> \o ObservedError(lastOutcome)
                              \o <<". You MUST respond with EXACTLY the JSON object">>]_vars

\* C25: in the menu loop, the table is cleared (full refresh) or reset to
\* pending only in a step in which both confirmation prompts were answered
\* as asked.
C25_DestructiveNeedsTwoConfirmations ==
    [][(pc = "menu" /\ out'.op \in {"refresh", "reset"} /\ out' # out) =>
          out'.confirmations = 2]_vars

\* a row of the batch that has its order id (the header was present and the
\* cell filled)
RowIsValid(row) == row.order_id # ""

\* C26: a load inserts every valid row of the batch, before and after an
\* invalid one, and leaves no record for a row that lacks a field.
C26_BadRowSkipped ==
    (out.op \in {"load", "refresh"}) =>
        \A i \in 1..Len(out.batch) :
            IF RowIsValid(out.batch[i])
            THEN HasId(store, out.batch[i].id)
            ELSE ~HasId(store, out.batch[i].id)

\* the record of table st with the given id
RecordOf(st, id) == st[IndexOfId(st, id)]

RunIds == {unprocessed[i].id : i \in 1..Len(unprocessed)}

\* C28: whenever a call goes out, the run is at the head of its list and
\* every complaint that is no longer in the list has had its outcome written:
\* the only Pending records are the current complaint and those after it.
C28_OneComplaintAtATime ==
    [][calls' > calls =>
          /\ pc = "run" /\ unprocessed # <<>>
          /\ unprocessed' = unprocessed /\ store' = store
          /\ \A i \in 1..Len(store) :
                 store[i].processed = "Pending" => store[i].id \in RunIds]_vars

\* a call is out for the second complaint of a run whose first complaint
\* used up every retry of the client and has had its outcome written
C28_Witness ==
    /\ pc = "run" /\ calls > 0 /\ unprocessed # <<>>
    /\ Head(unprocessed).id \notin runExhausted
    /\ \E id \in runExhausted :
           HasId(store, id) /\ RecordOf(store, id).processed # "Pending"

\* C29: a load reports as added the number of records its batch inserted.
C29_CountsMatchStore ==
    [][(out' # out /\ out'.op = "load") =>
          out'.added = Len(store') - Len(store)]_vars

\* C31: a complaint is handed to the client at most max_tries times in a
\* run, each invocation makes at most max_retries calls, so the calls for
\* one complaint stay within max_tries * max_retries; when the last try
\* ends in an API error too, the complaint is written as Failed.
C31_OuterRetryBounded ==
    /\ [](pc = "run" =>
             /\ tries < max_tries
             /\ calls <= max_retries
             /\ tries * max_retries + calls <= max_tries * max_retries)
    /\ [][(pc = "run" /\ apc \in {"Success", "Exhausted", "Empty"}
            /\ ContainsApiError(analysis) /\ tries + 1 = max_tries) =>
              /\ unprocessed' = Tail(unprocessed)
              /\ RecordOf(store', Head(unprocessed).id).processed = "Failed"
              /\ RecordOf(store', Head(unprocessed).id).suggested_solution
                    = PyStr(FailedMessage(analysis))]_vars

\* the third try of a complaint has made its third call and ended in an
\* API error
C31_Witness ==
    /\ pc = "run" /\ tries = max_tries - 1 /\ calls = max_retries
    /\ apc = "Success" /\ ContainsApiError(analysis)

\* C32: when the reply holds the required object and a brace outside it,
\* the normaliser returns the three root causes and the three solutions of
\* that object.
C32_SmallestObjectParsed ==
    (lastOutcome.kind = "ok") =>
        \A i, j \in 1..Len(ReplyText) :
            (/\ ValidObjectAt(ReplyText, i, j)
             /\ \E b \in 1..Len(ReplyText) :
                    (b < i \/ b > j) /\ ReplyText[b].t \in {"{", "}"}) =>
                /\ \E k \in (i + 1)..(j - 1) :
                       /\ IsList3(ReplyText[k], "root_cause")
                       /\ analysis.root_cause = PyList(ReplyText[k].items)
                /\ \E k \in (i + 1)..(j - 1) :
                       /\ IsList3(ReplyText[k], "suggested_solution")
                       /\ analysis.suggested_solution = PyList(ReplyText[k].items)

\* C33: one load numbers the rows of its batch consecutively in row order,
\* starting at the next id of the table, whether or not rows repeat an
\* order reference, and appends them in that order as Pending records; two
\* rows with distinct order references loaded into an empty table become
\* COMP-000001 and COMP-000002.
C33_ConsecutiveIdsInRowOrder ==
    [][(out'.op = "load") =>
          LET n == Len(out'.ids)
          IN  /\ n = Len(out'.batch)
              /\ out'.ids[1] = GetNextComplaintId(store)
              /\ \A i \in 1..n :
                     /\ MatchesIdPattern(out'.ids[i])
                     /\ out'.batch[i].id = out'.ids[i]
                     /\ i < n => IdNumber(out'.ids[i + 1]) = IdNumber(out'.ids[i]) + 1
                     /\ store'[Len(store) + i].id = out'.ids[i]
                     /\ store'[Len(store) + i].order_id = out'.batch[i].order_id
                     /\ store'[Len(store) + i].processed = "Pending"
              /\ Len(store') = Len(store) + n
              /\ (store = <<>> /\ n = 2) =>
                     /\ store'[1].id = <<"C", "O", "M", "P", "-", "0", "0", "0", "0", "0", "1">>
                     /\ store'[2].id = <<"C", "O", "M", "P", "-", "0", "0", "0", "0", "0", "2">>]_vars

\* two rows with distinct order references were loaded into an empty table
C33_Witness ==
    /\ out.op = "load" /\ Len(out.ids) = 2 /\ Len(store) = 2
    /\ store[1].order_id # store[2].order_id
    /\ store[1].order_id # "" /\ store[2].order_id # ""
    /\ store[1].processed = "Pending" /\ store[2].processed = "Pending"
    /\ IdNumber(store[1].id) = 1 /\ IdNumber(store[2].id) = 2

\* a step of a process_complaints run that changes the table
RunWrite == out.op = "process" /\ pc = "run" /\ store' # store

\* C34 as stated: the status a run of process_complaints writes for a
\* complaint is Successful or Failed.
C34_RunLeavesSuccessfulOrFailed ==
    [][RunWrite =>
          RecordOf(store', Head(unprocessed).id).processed
              \in {"Successful", "Failed"}]_vars

\* C34: when a run of process_complaints has gone through its list, no
\* record is Pending; every write of the run follows a finished invocation
\* of the client for the complaint at the head of the list, takes that
\* record from Pending to Successful, Closed or Failed, removes it from the
\* list, and leaves every other record as it was.
C34_RunSettlesEveryPending ==
    /\ []((out.op = "process" /\ pc = "run" /\ unprocessed = <<>>) =>
             \A i \in 1..Len(store) :
                 store[i].processed \in {"Successful", "Closed", "Failed"})
    /\ [][RunWrite =>
             /\ apc \in {"Success", "Exhausted", "Empty"}
             /\ Len(store') = Len(store)
             /\ unprocessed' = Tail(unprocessed)
             /\ \A i \in 1..Len(unprocessed') :
                    unprocessed'[i].id # Head(unprocessed).id
             /\ \A i \in 1..Len(store) :
                    IF store[i].id = Head(unprocessed).id
                    THEN /\ store[i].processed = "Pending"
                         /\ store'[i].processed \in {"Successful", "Closed", "Failed"}
                    ELSE store'[i] = store[i]]_vars

\* a run of process_complaints is through its list and has left one
\* complaint Closed and one Failed
C34_Witness ==
    /\ out.op = "process" /\ pc = "run" /\ unprocessed = <<>>
    /\ Len(store) = 2
    /\ \E i, j \in 1..2 : store[i].processed = "Closed" /\ store[j].processed = "Failed"

\* process_complaints was the last menu handler and it has returned
AfterProcess == out.op = "process" /\ pc = "menu"

\* C35: once process_complaints has returned, no record is Pending, and
\* calling it again at once starts no run: no call goes out and the table
\* stays as it is.
C35_SecondRunDoesNothing ==
    /\ [](AfterProcess => \A i \in 1..Len(store) : store[i].processed # "Pending")
    /\ [][(AfterProcess /\ out'.op = "process") =>
             /\ pc' = "menu" /\ unprocessed' = <<>>
             /\ calls' = 0 /\ apc' = "Idle"
             /\ store' = store]_vars

\* process_complaints has returned from a run that left a Failed and a
\* settled record
C35_Witness ==
    /\ AfterProcess
    /\ Len(store) = 2
    /\ \E i, j \in 1..2 :
           /\ store[i].processed = "Failed"
           /\ store[j].processed \in {"Successful", "Closed"}

\* C36: in the report of generate_report the processed, failed and pending
\* counts add up to the total.
C36_ReportCountsPartition ==
    (out.op = "report") =>
        out.report.total_complaints =
            out.report.processed_complaints + out.report.failed_complaints
              + out.report.pending_complaints

\* C37: for a reply of at least 20 characters once stripped, the normaliser
\* returns a result without the error marker and the invocation returns on
\* the attempt that received the reply.
C37_LongReplyEndsInvocation ==
    (lastOutcome.kind = "ok" /\ ReplyLen >= MinReplyLen) =>
        /\ ~analysis.has_error
        /\ apc = "Success"
        /\ retry_count = 0

\* the records of table st that are Pending or Failed, in table order
PendingOrFailed(st) == SelectSeq(st, LAMBDA r : r.processed \in {"Pending", "Failed"})

\* C38: process_pending_and_failed_complaints takes exactly the records
\* that are Pending or Failed when it starts, sends calls only for such
\* records, and when it is through its list its processed and failed
\* counts add up to the number of records it took.
C38_ReprocessSelectsAndCounts ==
    /\ []((out.op = "reprocess" /\ unprocessed = <<>>) =>
             out.successful_count + out.failed_count = Len(out.ids))
    /\ []((out.op = "reprocess" /\ pc = "run") =>
             out.successful_count + out.failed_count + Len(unprocessed) = Len(out.ids))
    /\ [][(pc = "menu" /\ out'.op = "reprocess") =>
             /\ unprocessed' = PendingOrFailed(store)
             /\ Len(out'.ids) = Len(unprocessed')
             /\ \A i \in 1..Len(unprocessed') : out'.ids[i] = unprocessed'[i].id]_vars
    /\ [][(out.op = "reprocess" /\ calls' > calls) =>
             /\ RecordOf(store, Head(unprocessed).id).processed \in {"Pending", "Failed"}
             /\ store' = store]_vars

\* a run over a Failed and a Pending record, next to a Successful one, is
\* through its list with one complaint processed and one failed
C38_Witness ==
    /\ out.op = "reprocess" /\ pc = "run" /\ unprocessed = <<>>
    /\ Len(store) = 3 /\ Len(out.ids) = 2
    /\ out.successful_count = 1 /\ out.failed_count = 1
====
